---------------------------- MODULE Spec2Model ----------------------------
(***************************************************************************)
(* A model of Bio.SearchIO's tabular parsers and writers:                  *)
(*   Bio/SearchIO/BlastIO/blasttab.py    (BLAST+ tabular, plain/commented)  *)
(*   Bio/SearchIO/HmmerIO/hmmerdomtab.py (HMMER domain table)               *)
(*   Bio/SearchIO/HmmerIO/hmmer2text.py  (HMMER 2 text output)              *)
(*                                                                         *)
(* Conventions of the model                                                *)
(*   - Python's None is the empty tuple << >>; a value that may be None is  *)
(*     held as << >> or <<v>> (prev_qid, cur, strand, frame).               *)
(*   - A dict and an object with attributes are functions from names to     *)
(*     values; setattr / d[k] = v is Put.                                   *)
(*   - A line of text is a record [kind, cols]: kind says what the line     *)
(*     looks like to the substring tests of the code, cols holds its        *)
(*     tab (or blank) separated values.  The text of an integer is the      *)
(*     tuple of its decimal digits; the text of a real is a decimal         *)
(*     literal [m, e] standing for m * 10^e.                                *)
(***************************************************************************)
EXTENDS Integers, Sequences, FiniteSets, TLC

VARIABLES
    parser,        \* "blasttab" | "domtab": which iterator class runs
    has_comments,  \* BlastTabIterator.has_comments
    fields,        \* BlastTabIterator.fields (active column list)
    file,          \* the lines of the input handle
    pos,           \* number of lines of the handle consumed so far
    nreads,        \* number of handle.readline() calls made so far
    line,          \* self.line
    pc,            \* where the iterator's generator stands
    cur, prev,     \* locals of _parse_qresult / parse_qresult
    cur_qid, cur_hid, prev_qid, prev_hid,
    file_state,
    hit_list, hsp_list,
    comments,      \* the dict _parse_comments fills and returns
    out,           \* the QueryResult objects yielded so far
    fields_arg,    \* the column list the caller gives to parser and writer
    origin,        \* "file": the query results of out were parsed from file;
                   \* "objects": the caller built them
    phase,         \* "source": the input is parsed; "written", "write_error":
                   \* write_file has returned or raised; "out": the written
                   \* file is parsed
    source_qresults, \* the query results parsed from the input
    written,       \* the lines BlastTabWriter.write_file wrote
    counts,        \* the counters write_file returned
    indexer,       \* the state of a BlastTabIndexer on file
    buf,           \* Hmmer2TextIterator.buf: the lines pushed back
    _meta,         \* Hmmer2TextIterator._meta: what parse_preamble returned
    self_qresult   \* Hmmer2TextIterator.qresult: the query result being filled

vars == <<parser, has_comments, fields, file, pos, nreads, line, pc, cur, prev,
          cur_qid, cur_hid, prev_qid, prev_hid, file_state, hit_list,
          hsp_list, comments, out, fields_arg, origin, phase, source_qresults,
          written, counts, indexer, buf, _meta, self_qresult>>

\* the attributes of a Hmmer2TextIterator
hmmer2 == <<buf, _meta, self_qresult>>

\* the state of the parse-write-parse round trip around the iterator, and what
\* the iterators of BLAST and of the domain table leave alone
harness ==
    <<fields_arg, origin, phase, source_qresults, written, counts, indexer, buf, _meta,
      self_qresult>>

---------------------------------------------------------------------------
(* Bounds of the model *)

\* longest stream of data rows of the grouping inputs
MaxRows == 3
MaxTokenRows == 2
\* the raw 1-based coordinates of the coordinate inputs are 1..MaxCoord and 12
MaxCoord == 3
\* longest file of the inputs that mix comment lines, blank lines and rows
MaxLines == 3
\* longest stream of data rows of the inputs with other column lists
MaxFieldRows == 2
\* most comment blocks of the inputs made of blocks
MaxBlocks == 2
MaxFieldBlocks == 3
\* most query results given to the writer of the domain table
MaxDomtabQueries == 3
\* most blocks of a file of HMMER 2 text
MaxHmmer2Blocks == 3
\* readline calls allowed beyond the end of the file before the model stops
ExtraReads == 3

---------------------------------------------------------------------------
(* Generic helpers *)

None == << >>

Some(v) == <<v>>

Min(a, b) == IF a <= b THEN a ELSE b

Max(a, b) == IF a >= b THEN a ELSE b

EmptyMap == [x \in {} |-> 0]

\* d[k] = v, setattr(o, k, v)
Put(m, k, v) == [x \in (DOMAIN m) \cup {k} |-> IF x = k THEN v ELSE m[x]]

\* d.get(k), getattr(o, k, None)
Get(m, k) == IF k \in DOMAIN m THEN Some(m[k]) ELSE None

\* for k, v in d.items(): setattr(o, k, v)
SetAll(o, d) == [x \in (DOMAIN o) \cup (DOMAIN d) |-> IF x \in DOMAIN d THEN d[x] ELSE o[x]]

SeqsUpTo(S, n) == UNION {[1..k -> S] : k \in 0..n}

\* the concatenation of a sequence of sequences
RECURSIVE ConcatAll(_)
ConcatAll(ss) == IF ss = << >> THEN << >> ELSE Head(ss) \o ConcatAll(Tail(ss))

RECURSIVE Pow10(_)
Pow10(k) == IF k <= 0 THEN 1 ELSE 10 * Pow10(k - 1)

\* str(n) for an int n: its decimal digits, after -1 (the minus sign) if n < 0
RECURSIVE DecStr(_)
DecStr(n) ==
    IF n < 0 THEN <<-1>> \o DecStr(0 - n)
    ELSE IF n < 10 THEN <<n>>
    ELSE Append(DecStr(n \div 10), n % 10)

\* int(s) for the text of an integer
RECURSIVE DecInt(_)
DecInt(s) ==
    IF Len(s) = 0 THEN 0
    ELSE IF s[1] = -1 THEN 0 - DecInt(Tail(s))
    ELSE 10 * DecInt(SubSeq(s, 1, Len(s) - 1)) + s[Len(s)]

\* float(s) for a decimal literal m * 10^e: the value, trailing zeros dropped
RECURSIVE FloatOf(_)
FloatOf(t) ==
    IF t.m = 0 THEN [m |-> 0, e |-> 0]
    ELSE IF t.m % 10 = 0 THEN FloatOf([m |-> t.m \div 10, e |-> t.e + 1])
    ELSE t

\* str.upper() and str.lower() of the program names of the inputs
Upper(str) == IF str \in {"tblastn", "TBLASTN"} THEN "TBLASTN" ELSE str

Lower(str) == IF str \in {"tblastn", "TBLASTN"} THEN "tblastn" ELSE str

Cast(caster, value) ==
    CASE caster = "int" -> DecInt(value)
      [] caster = "float" -> FloatOf(value)
      [] OTHER -> value

---------------------------------------------------------------------------
(* The field catalog of blasttab.py *)

_COLUMN_QRESULT ==
    ("qseqid" :> <<"id", "str">>) @@ ("qacc" :> <<"acc", "str">>) @@
    ("qaccver" :> <<"acc_ver", "str">>) @@ ("qlen" :> <<"seq_len", "int">>) @@
    ("qgi" :> <<"gi", "str">>)

_COLUMN_HIT ==
    ("sseqid" :> <<"id", "str">>) @@ ("sallseqid" :> <<"id_all", "str">>) @@
    ("sacc" :> <<"acc", "str">>) @@ ("saccver" :> <<"acc_ver", "str">>) @@
    ("sgi" :> <<"gi", "str">>) @@ ("sallgi" :> <<"gi_all", "str">>) @@
    ("slen" :> <<"seq_len", "int">>)

_COLUMN_HSP ==
    ("bitscore" :> <<"bitscore", "float">>) @@ ("score" :> <<"bitscore_raw", "int">>) @@
    ("evalue" :> <<"evalue", "float">>) @@ ("nident" :> <<"ident_num", "int">>) @@
    ("pident" :> <<"ident_pct", "float">>) @@ ("positive" :> <<"pos_num", "int">>) @@
    ("ppos" :> <<"pos_pct", "float">>) @@ ("mismatch" :> <<"mismatch_num", "int">>) @@
    ("gaps" :> <<"gap_num", "int">>) @@ ("gapopen" :> <<"gapopen_num", "int">>) @@
    ("btop" :> <<"btop", "str">>)

\* faulty variant of _COLUMN_FRAG: the catalog has no column qend
_COLUMN_FRAGNoQend ==
    ("length" :> <<"aln_span", "int">>) @@ ("qstart" :> <<"query_start", "int">>) @@
    ("sstart" :> <<"hit_start", "int">>) @@
    ("send" :> <<"hit_end", "int">>) @@ ("qframe" :> <<"query_frame", "int">>) @@
    ("sframe" :> <<"hit_frame", "int">>) @@ ("frames" :> <<"frames", "str">>) @@
    ("qseq" :> <<"query", "str">>) @@ ("sseq" :> <<"hit", "str">>)

_COLUMN_FRAG ==
    ("length" :> <<"aln_span", "int">>) @@ ("qstart" :> <<"query_start", "int">>) @@
    ("qend" :> <<"query_end", "int">>) @@ ("sstart" :> <<"hit_start", "int">>) @@
    ("send" :> <<"hit_end", "int">>) @@ ("qframe" :> <<"query_frame", "int">>) @@
    ("sframe" :> <<"hit_frame", "int">>) @@ ("frames" :> <<"frames", "str">>) @@
    ("qseq" :> <<"query", "str">>) @@ ("sseq" :> <<"hit", "str">>)

_SUPPORTED_FIELDS ==
    (DOMAIN _COLUMN_QRESULT) \cup (DOMAIN _COLUMN_HIT) \cup
    (DOMAIN _COLUMN_HSP) \cup (DOMAIN _COLUMN_FRAG)

_DEFAULT_FIELDS ==
    <<"qseqid", "sseqid", "pident", "length", "mismatch", "gapopen",
      "qstart", "qend", "sstart", "send", "evalue", "bitscore">>

_MIN_QUERY_FIELDS == {"qseqid", "qacc", "qaccver"}

_MIN_HIT_FIELDS == {"sseqid", "sacc", "saccver"}

Range(s) == {s[i] : i \in DOMAIN s}

\* fields.index(x): the first position of x
IndexOf(s, x) == CHOOSE i \in DOMAIN s : s[i] = x /\ \A j \in 1..(i - 1) : s[j] # x

\* 'std' is spliced out for the default column list at its first position
ExpandStd(fs) ==
    IF "std" \in Range(fs)
    THEN LET idx == IndexOf(fs, "std")
         IN SubSeq(fs, 1, idx - 1) \o _DEFAULT_FIELDS \o SubSeq(fs, idx + 1, Len(fs))
    ELSE fs

\* faulty variant of PrepFieldsFails: qseqid is the only key column of the
\* query that is accepted
PrepFieldsFailsWithoutQseqid(fs) ==
    \/ "qseqid" \notin Range(ExpandStd(fs))
    \/ Range(ExpandStd(fs)) \cap _MIN_HIT_FIELDS = {}

\* whether _prep_fields raises ValueError on fs
PrepFieldsFails(fs) ==
    \/ Range(ExpandStd(fs)) \cap _MIN_QUERY_FIELDS = {}
    \/ Range(ExpandStd(fs)) \cap _MIN_HIT_FIELDS = {}

_prep_fields(fs) == ExpandStd(fs)


---------------------------------------------------------------------------
(* Lines of text *)

\* '' : what readline() returns at end of file, and what strip() leaves of a
\* blank line
EmptyLine == [kind |-> "empty", cols |-> << >>]

\* a raw line holding only its line break
BlankLine == [kind |-> "blank", cols |-> << >>]

RowLine(cols) == [kind |-> "row", cols |-> cols]

CommentKinds ==
    {"c_program", "c_query", "c_database", "c_rid", "c_fields", "c_hits",
     "c_processed", "c_other"}

CommentLine(kind, cols) == [kind |-> kind, cols |-> cols]

\* line.strip()
Strip(l) == IF l.kind = "blank" THEN EmptyLine ELSE l

\* bool(line): a str is true unless it is ''
Truthy(l) == l.kind # "empty"

\* line.startswith('#')
StartsWithHash(l) == l.kind \in CommentKinds

\* handle.readline(): the next raw line, '' at end of file
ReadLine == IF pos < Len(file) THEN file[pos + 1] ELSE EmptyLine

\* the handle and the read counter after one readline(); the counter stops at
\* the bound so that a scan that never ends keeps the state space finite
Advance ==
    /\ pos' = IF pos < Len(file) THEN pos + 1 ELSE pos
    /\ nreads' = nreads + 1

CanRead == nreads < Len(file) + ExtraReads

---------------------------------------------------------------------------
(* BlastTabIterator._parse_result_row and _get_id *)

\* the part of one row that goes to one of the four dicts
RECURSIVE DecodeInto(_, _, _, _)
DecodeInto(mapping, fs, columns, idx) ==
    IF idx = 0 THEN EmptyMap
    ELSE LET rest == DecodeInto(mapping, fs, columns, idx - 1)
             sname == fs[idx]
         IN IF sname \in DOMAIN mapping
            THEN Put(rest, mapping[sname][1], Cast(mapping[sname][2], columns[idx]))
            ELSE rest

\* faulty variant of RowColumnsOK: a row with more columns than the list passes
RowColumnsOKAtLeast(fs, l) == Len(fs) <= Len(l.cols)

\* the assertion of _parse_result_row on the number of columns
RowColumnsOK(fs, l) == Len(fs) = Len(l.cols)

_parse_result_row(fs, l) ==
    [qresult |-> DecodeInto(_COLUMN_QRESULT, fs, l.cols, Len(fs)),
     hit |-> DecodeInto(_COLUMN_HIT, fs, l.cols, Len(fs)),
     hsp |-> DecodeInto(_COLUMN_HSP, fs, l.cols, Len(fs)),
     frag |-> DecodeInto(_COLUMN_FRAG, fs, l.cols, Len(fs))]

\* faulty variant of _get_id: the accession is taken before the identifier
_get_idAccFirst(parsed) ==
    IF Get(parsed, "acc") # None THEN Get(parsed, "acc")
    ELSE IF Get(parsed, "id") # None THEN Get(parsed, "id")
    ELSE Get(parsed, "acc_ver")

_get_id(parsed) ==
    IF Get(parsed, "id") # None THEN Get(parsed, "id")
    ELSE IF Get(parsed, "acc") # None THEN Get(parsed, "acc")
    ELSE Get(parsed, "acc_ver")


---------------------------------------------------------------------------
(* HmmerDomtabIterator.parse_result_row *)

hmm_as_hit == parser = "domtab-hmmhit"

\* faulty variant of DomtabCols: the description is the 23rd token alone
DomtabColsOneToken(l) ==
    IF Len(l.cols) >= 23
    THEN [i \in 1..23 |-> IF i = 23 THEN <<l.cols[23]>> ELSE l.cols[i]]
    ELSE Append(l.cols, << >>)

\* cols after the description columns are merged (len > 23) or an empty
\* description is appended (len < 23); the description is held as its tokens
DomtabCols(l) ==
    IF Len(l.cols) > 23
    THEN [i \in 1..23 |-> IF i = 23 THEN SubSeq(l.cols, 23, Len(l.cols)) ELSE l.cols[i]]
    ELSE IF Len(l.cols) < 23 THEN Append(l.cols, << >>)
    ELSE [i \in 1..23 |-> IF i = 23 THEN <<l.cols[23]>> ELSE l.cols[i]]

\* assert len(cols) == 23, and every cols[i] read by the decoder exists
DomtabColumnsOK(l) == Len(DomtabCols(l)) = 23

parse_result_row(l) ==
    LET cols == DomtabCols(l)
        hmm_start == DecInt(cols[16]) - 1
        hmm_end == DecInt(cols[17])
        ali_start == DecInt(cols[18]) - 1
        ali_end == DecInt(cols[19])
    IN [qresult |-> [id |-> cols[4], acc |-> cols[5], seq_len |-> DecInt(cols[6])],
        hit |-> [id |-> cols[1], acc |-> cols[2], seq_len |-> DecInt(cols[3]),
                 evalue |-> FloatOf(cols[7]), bitscore |-> FloatOf(cols[8]),
                 bias |-> FloatOf(cols[9]), description |-> cols[23]],
        hsp |-> [domain_index |-> DecInt(cols[10]),
                 evalue_cond |-> FloatOf(cols[12]), evalue |-> FloatOf(cols[13]),
                 bitscore |-> FloatOf(cols[14]), bias |-> FloatOf(cols[15]),
                 env_start |-> DecInt(cols[20]) - 1, env_end |-> DecInt(cols[21]),
                 acc_avg |-> FloatOf(cols[22])],
        frag |-> [hit_strand |-> Some(0), query_strand |-> Some(0),
                  hit_start |-> IF hmm_as_hit THEN hmm_start ELSE ali_start,
                  hit_end |-> IF hmm_as_hit THEN hmm_end ELSE ali_end,
                  query_start |-> IF hmm_as_hit THEN ali_start ELSE hmm_start,
                  query_end |-> IF hmm_as_hit THEN ali_end ELSE hmm_end]]

---------------------------------------------------------------------------
(* Building one HSPFragment, HSP, Hit and QueryResult from the previous row *)

state_EOF == 0

\* HSPFragment(hit_id, query_id)
HSPFragment(hid, qid) == [hit_id |-> hid, query_id |-> qid]

\* faulty variant of AdjustCoord: the start is not moved to 0-based
AdjustCoordNoShift(attr, value, pfrag) ==
    IF attr = "query_start" THEN Min(value, pfrag["query_end"])
    ELSE IF attr = "query_end" THEN Max(value, pfrag["query_start"])
    ELSE IF attr = "hit_start" THEN Min(value, pfrag["hit_end"])
    ELSE IF attr = "hit_end" THEN Max(value, pfrag["hit_start"])
    ELSE value

\* blasttab.py, the coordinate adjustment of one attribute of prev['frag']
AdjustCoord(attr, value, pfrag) ==
    IF attr = "query_start" THEN Min(value, pfrag["query_end"]) - 1
    ELSE IF attr = "query_end" THEN Max(value, pfrag["query_start"])
    ELSE IF attr = "hit_start" THEN Min(value, pfrag["hit_end"]) - 1
    ELSE IF attr = "hit_end" THEN Max(value, pfrag["hit_start"])
    ELSE value

\* the KeyError of the adjustment: one coordinate of a pair without the other
CoordPairsOK(pfrag) ==
    /\ ("query_start" \in DOMAIN pfrag) <=> ("query_end" \in DOMAIN pfrag)
    /\ ("hit_start" \in DOMAIN pfrag) <=> ("hit_end" \in DOMAIN pfrag)

_get_frag_frame(frag, seq_type, parsedict) ==
    IF Get(frag, seq_type \o "_frame") # None
    THEN Get(frag, seq_type \o "_frame")
    ELSE IF "frames" \in DOMAIN parsedict
    THEN Some(DecInt(parsedict["frames"][IF seq_type = "query" THEN 1 ELSE 2]))
    ELSE None

\* faulty variant of _get_frag_strand: equal start and end give strand 0
_get_frag_strandZero(frag, seq_type, parsedict) ==
    IF Get(frag, seq_type \o "_strand") # None
    THEN Get(frag, seq_type \o "_strand")
    ELSE LET start == Get(parsedict, seq_type \o "_start")
             end == Get(parsedict, seq_type \o "_end")
         IN IF start # None /\ end # None
            THEN IF start[1] = end[1] THEN Some(0)
                 ELSE IF start[1] < end[1] THEN Some(1) ELSE Some(-1)
            ELSE None

\* faulty variant of _get_frag_strand: +1 stands in for a strand that is not known
_get_frag_strandDefault(frag, seq_type, parsedict) ==
    IF Get(frag, seq_type \o "_strand") # None
    THEN Get(frag, seq_type \o "_strand")
    ELSE LET start == Get(parsedict, seq_type \o "_start")
             end == Get(parsedict, seq_type \o "_end")
         IN IF start # None /\ end # None
            THEN IF start[1] <= end[1] THEN Some(1) ELSE Some(-1)
            ELSE Some(1)

_get_frag_strand(frag, seq_type, parsedict) ==
    IF Get(frag, seq_type \o "_strand") # None
    THEN Get(frag, seq_type \o "_strand")
    ELSE LET start == Get(parsedict, seq_type \o "_start")
             end == Get(parsedict, seq_type \o "_end")
         IN IF start # None /\ end # None
            THEN IF start[1] <= end[1] THEN Some(1) ELSE Some(-1)
            ELSE None

\* the HSPFragment of _parse_qresult for the row p, with keys hid and qid
BlastFrag(p, hid, qid) ==
    LET frag1 == SetAll(HSPFragment(hid, qid),
                        [a \in DOMAIN p.frag |-> AdjustCoord(a, p.frag[a], p.frag)])
    IN SetAll(frag1,
              [hit_frame |-> _get_frag_frame(frag1, "hit", p.frag),
               hit_strand |-> _get_frag_strand(frag1, "hit", p.frag),
               query_frame |-> _get_frag_frame(frag1, "query", p.frag),
               query_strand |-> _get_frag_strand(frag1, "query", p.frag)])

\* the HSPFragment of parse_qresult (domtab): the attributes are copied
DomtabFrag(p, hid, qid) == SetAll(HSPFragment(hid, qid), p.frag)

BuildFrag(p, hid, qid) ==
    IF parser = "blasttab" THEN BlastFrag(p, hid, qid) ELSE DomtabFrag(p, hid, qid)

\* HSP([frag]) with the attributes of prev['hsp']
BuildHSP(p, hid, qid) ==
    SetAll([fragments |-> <<BuildFrag(p, hid, qid)>>], p.hsp)

\* Hit(prev_hid, prev_qid, hsps=hsp_list) with the attributes of prev['hit']
BuildHit(p, hid, qid, hsps) ==
    SetAll([id |-> hid, query_id |-> qid, hsps |-> hsps], p.hit)

\* QueryResult(prev_qid, hits=hit_list) with the attributes of prev['qresult']
BuildQueryResult(p, qid, hits) == SetAll([id |-> qid, hits |-> hits], p.qresult)


---------------------------------------------------------------------------
(* The row-grouping loop: BlastTabIterator._parse_qresult and              *)
(* HmmerDomtabIterator.parse_qresult                                       *)

\* the test that decides whether the loop decodes self.line
IsDataLine(l) ==
    IF parser = "blasttab" THEN Truthy(l) /\ ~StartsWithHash(l) ELSE Truthy(l)

\* the assertion of the row decoder holds for self.line
DecodeOK(l) ==
    IF parser = "blasttab" THEN RowColumnsOK(fields, l) ELSE DomtabColumnsOK(l)

Decode(l) ==
    IF parser = "blasttab" THEN _parse_result_row(fields, l) ELSE parse_result_row(l)

QueryKey(p) == IF parser = "blasttab" THEN _get_id(p.qresult) ELSE Some(p.qresult.id)

HitKey(p) == IF parser = "blasttab" THEN _get_id(p.hit) ELSE Some(p.hit.id)

\* faulty variant of QresNew: the comparison is inverted
QresNewInverted(pqid, cqid) == pqid = cqid

\* a new query result starts between the previous and the current row
QresNew(pqid, cqid) == pqid # cqid

\* faulty variant of HitNew: a new query result does not start a new hit
HitNewIgnoringQuery(phid, chid, pqid, cqid) == phid # chid

\* faulty variant of HitNew: in a domain table a new query result does not
\* start a new hit
HitNewBlastOnly(phid, chid, pqid, cqid) ==
    phid # chid \/ (parser = "blasttab" /\ QresNew(pqid, cqid))

\* a new hit starts between the previous and the current row
HitNew(phid, chid, pqid, cqid) == phid # chid \/ QresNew(pqid, cqid)

\* the query result is closed and yielded after the previous row
QresYield(pqid, cqid, fstate) == QresNew(pqid, cqid) \/ fstate = Some(state_EOF)

\* faulty variant of NextHspList: the list is not emptied
NextHspListKept(hsps, hitnew) == hsps

\* hsp_list after the row: emptied when its hit is closed
NextHspList(hsps, hitnew) == IF hitnew THEN << >> ELSE hsps

\* faulty variant of NextHitList: the closed hit is not kept
NextHitListNever(hits, hit, hitnew) == hits

\* hit_list after the row: the closed hit is appended
NextHitList(hits, hit, hitnew) == IF hitnew THEN Append(hits, hit) ELSE hits

\* faulty variant of BreakAfterYield: the loop ends after its first yield
BreakAfterYieldAlways(fstate) == TRUE

\* the loop ends after the yield that follows the end of the rows
BreakAfterYield(fstate) == fstate = Some(state_EOF)

\* the next line as the loop stores it: blasttab strips it, domtab does not
NextLine == IF parser = "blasttab" THEN Strip(ReadLine) ELSE ReadLine

\* the locals of a fresh call of the generator
EnterParseQresult ==
    /\ cur' = None
    /\ prev' = None
    /\ cur_qid' = None
    /\ cur_hid' = None
    /\ prev_qid' = None
    /\ prev_hid' = None
    /\ file_state' = None
    /\ hit_list' = << >>
    /\ hsp_list' = << >>

\* faulty variant of NewComments: the dict of the previous call is filled again
NewCommentsKept(c) == c

\* comments = {} at the start of a call of _parse_comments, whatever the dict c
\* of the previous call holds
NewComments(c) == EmptyMap

\* what the consumer receives: in a commented file _parse_qresult_with_comments
\* sets the comments of the block on the query result before it yields it
Yielded(qresult) == IF has_comments THEN SetAll(qresult, comments) ELSE qresult

\* One pass of the while loop, from its top to the yield or, when nothing is
\* yielded, to the readline() that ends the pass.
ParseQresultStep ==
    /\ pc = "parse_qresult"
    /\ CanRead
    /\ LET prev1 == IF cur # None THEN cur ELSE prev
           prev_qid1 == IF cur # None THEN cur_qid ELSE prev_qid
           prev_hid1 == IF cur # None THEN cur_hid ELSE prev_hid
           isrow == IsDataLine(line)
       IN IF isrow /\ ~DecodeOK(line)
          THEN /\ pc' = "error"
               /\ prev' = prev1
               /\ prev_qid' = prev_qid1
               /\ prev_hid' = prev_hid1
               /\ UNCHANGED <<cur, cur_qid, cur_hid, file_state, hit_list, hsp_list,
                              out, line, pos, nreads>>
          ELSE LET cur1 == IF isrow THEN Some(Decode(line)) ELSE cur
                   cur_qid1 == IF isrow THEN QueryKey(cur1[1]) ELSE None
                   cur_hid1 == IF isrow THEN HitKey(cur1[1]) ELSE None
                   file_state1 == IF isrow THEN file_state ELSE Some(state_EOF)
               IN /\ cur' = cur1
                  /\ cur_qid' = cur_qid1
                  /\ cur_hid' = cur_hid1
                  /\ file_state' = file_state1
                  /\ prev' = prev1
                  /\ prev_qid' = prev_qid1
                  /\ prev_hid' = prev_hid1
                  /\ IF prev1 = None
                     THEN /\ line' = NextLine
                          /\ Advance
                          /\ UNCHANGED <<pc, hit_list, hsp_list, out>>
                     ELSE IF parser = "blasttab" /\ ~CoordPairsOK(prev1[1].frag)
                     THEN /\ pc' = "error"
                          /\ UNCHANGED <<hit_list, hsp_list, out, line, pos, nreads>>
                     ELSE LET p == prev1[1]
                              hid == prev_hid1[1]
                              qid == prev_qid1[1]
                              hsps == Append(hsp_list, BuildHSP(p, hid, qid))
                              hitnew == HitNew(prev_hid1, cur_hid1, prev_qid1, cur_qid1)
                              hits == NextHitList(hit_list, BuildHit(p, hid, qid, hsps), hitnew)
                          IN /\ hsp_list' = NextHspList(hsps, hitnew)
                             /\ hit_list' = hits
                             /\ IF QresYield(prev_qid1, cur_qid1, file_state1)
                                THEN /\ out' = Append(out, Yielded(BuildQueryResult(p, qid, hits)))
                                     /\ pc' = "yielded"
                                     /\ UNCHANGED <<line, pos, nreads>>
                                ELSE /\ line' = NextLine
                                     /\ Advance
                                     /\ UNCHANGED <<pc, out>>
    /\ UNCHANGED <<parser, has_comments, fields, file, comments>>
    /\ UNCHANGED harness

\* The consumer asks for the next query result: the generator goes on after its
\* yield, to the break at end of file or to the readline() that ends the pass.
ParseQresultResume ==
    /\ pc = "yielded"
    /\ IF BreakAfterYield(file_state)
       THEN /\ pc' = IF has_comments THEN "parse_comments" ELSE "done"
            /\ comments' = IF has_comments THEN NewComments(comments) ELSE comments
            /\ UNCHANGED <<hit_list, line, pos, nreads>>
       ELSE /\ CanRead
            /\ hit_list' = << >>
            /\ line' = NextLine
            /\ Advance
            /\ pc' = "parse_qresult"
            /\ UNCHANGED comments
    /\ UNCHANGED <<parser, has_comments, fields, file, cur, prev, cur_qid, cur_hid,
                   prev_qid, prev_hid, file_state, hsp_list, out>>
    /\ UNCHANGED harness


---------------------------------------------------------------------------
(* BlastTabIterator.__iter__, _parse_qresult_with_comments, _parse_comments *)

_LONG_SHORT_MAP ==
    ("query id" :> "qseqid") @@ ("query acc." :> "qacc") @@
    ("query acc.ver" :> "qaccver") @@ ("query length" :> "qlen") @@
    ("subject id" :> "sseqid") @@ ("subject acc." :> "sacc") @@
    ("subject acc.ver" :> "saccver") @@ ("subject length" :> "slen") @@
    ("alignment length" :> "length") @@ ("bit score" :> "bitscore") @@
    ("score" :> "score") @@ ("evalue" :> "evalue") @@ ("identical" :> "nident") @@
    ("% identity" :> "pident") @@ ("positives" :> "positive") @@
    ("% positives" :> "ppos") @@ ("mismatches" :> "mismatch") @@ ("gaps" :> "gaps") @@
    ("q. start" :> "qstart") @@ ("q. end" :> "qend") @@ ("s. start" :> "sstart") @@
    ("s. end" :> "send") @@ ("query frame" :> "qframe") @@
    ("sbjct frame" :> "sframe") @@ ("query/sbjct frames" :> "frames") @@
    ("query seq" :> "qseq") @@ ("subject seq" :> "sseq") @@
    ("gap opens" :> "gapopen") @@ ("query gi" :> "qgi") @@
    ("subject ids" :> "sallseqid") @@ ("subject gi" :> "sgi") @@
    ("subject gis" :> "sallgi") @@ ("BTOP" :> "btop")

\* the long names of a Fields line are all known (else KeyError) and the
\* column list passes _prep_fields (else ValueError)
FieldsLineOK(l) ==
    /\ \A i \in DOMAIN l.cols : l.cols[i] \in DOMAIN _LONG_SHORT_MAP
    /\ ~PrepFieldsFails([i \in DOMAIN l.cols |-> _LONG_SHORT_MAP[l.cols[i]]])

_parse_fields_line(l) == _prep_fields([i \in DOMAIN l.cols |-> _LONG_SHORT_MAP[l.cols[i]]])

\* the entries one comment line adds to the dict
CommentEntries(c, l) ==
    CASE l.kind = "c_program" -> Put(Put(c, "program", Lower(l.cols[1])), "version", l.cols[2])
      [] l.kind = "c_query" ->
            IF Len(l.cols) = 2
            THEN Put(Put(c, "id", l.cols[1]), "description", l.cols[2])
            ELSE Put(c, "id", l.cols[1])
      [] l.kind = "c_database" -> Put(c, "target", l.cols[1])
      [] l.kind = "c_rid" -> Put(c, "rid", l.cols[1])
      [] l.kind = "c_fields" -> Put(c, "fields", _parse_fields_line(l))
      [] OTHER -> c

\* faulty variant of BlockFields: the column list of the parser is kept
BlockFieldsKept(c, fs) == fs

\* self.fields = comments['fields'], for a block with a Fields line
BlockFields(c, fs) == c["fields"]

\* faulty variant of EmptyQueryResult: the comments are not set on the object
EmptyQueryResultBare(c) == [id |-> "", hits |-> << >>]

\* QueryResult('') with the comments set on it, for a block without Fields line
EmptyQueryResult(c) == SetAll([id |-> "", hits |-> << >>], c)

\* the line ends the comment block: ' hits found' or 'processed' is in it
EndsComments(l) == l.kind \in {"c_hits", "c_processed"}

\* __iter__: nothing is yielded for a file without lines
Iter ==
    /\ pc = "start"
    /\ IF ~Truthy(line)
       THEN /\ pc' = "done"
            /\ UNCHANGED <<cur, prev, cur_qid, cur_hid, prev_qid, prev_hid, file_state,
                           hit_list, hsp_list>>
       ELSE /\ pc' = IF has_comments THEN "parse_comments" ELSE "parse_qresult"
            /\ EnterParseQresult
    /\ comments' = EmptyMap
    /\ UNCHANGED <<parser, has_comments, fields, file, pos, nreads, line, out>>
    /\ UNCHANGED harness

\* One pass of the while loop of _parse_comments and, when the call returns,
\* what _parse_qresult_with_comments does with the returned dict up to its
\* next yield or call.
ParseCommentsStep ==
    /\ pc = "parse_comments"
    /\ CanRead
    /\ IF \/ line.kind = "c_fields" /\ ~FieldsLineOK(line)
          \/ line.kind = "c_program" /\ Len(line.cols) < 2
       THEN /\ pc' = "error"
            /\ UNCHANGED <<comments, fields, line, pos, nreads, out, cur, prev, cur_qid,
                           cur_hid, prev_qid, prev_hid, file_state, hit_list, hsp_list>>
       ELSE IF EndsComments(line)
       THEN \* return comments, after reading one more line
            /\ line' = Strip(ReadLine)
            /\ Advance
            /\ UNCHANGED comments
            /\ IF comments = EmptyMap
               THEN /\ pc' = "done"
                    /\ UNCHANGED <<fields, out, cur, prev, cur_qid, cur_hid, prev_qid,
                                   prev_hid, file_state, hit_list, hsp_list>>
               ELSE IF "fields" \in DOMAIN comments
               THEN /\ fields' = BlockFields(comments, fields)
                    /\ pc' = "parse_qresult"
                    /\ EnterParseQresult
                    /\ UNCHANGED out
               ELSE /\ out' = Append(out, EmptyQueryResult(comments))
                    /\ pc' = "yielded_empty"
                    /\ UNCHANGED <<fields, cur, prev, cur_qid, cur_hid, prev_qid,
                                   prev_hid, file_state, hit_list, hsp_list>>
       ELSE /\ comments' = CommentEntries(comments, line)
            /\ Advance
            /\ IF ~Truthy(ReadLine)
               THEN \* end of file inside the comments: return None
                    /\ line' = ReadLine
                    /\ pc' = "done"
               ELSE /\ line' = Strip(ReadLine)
                    /\ UNCHANGED pc
            /\ UNCHANGED <<fields, out, cur, prev, cur_qid, cur_hid, prev_qid,
                           prev_hid, file_state, hit_list, hsp_list>>
    /\ UNCHANGED <<parser, has_comments, file>>
    /\ UNCHANGED harness

\* The consumer asks for the next query result after one without hits.
ResumeEmpty ==
    /\ pc = "yielded_empty"
    /\ pc' = "parse_comments"
    /\ comments' = NewComments(comments)
    /\ UNCHANGED <<parser, has_comments, fields, file, pos, nreads, line, cur, prev,
                   cur_qid, cur_hid, prev_qid, prev_hid, file_state, hit_list,
                   hsp_list, out>>
    /\ UNCHANGED harness


---------------------------------------------------------------------------
(* Reals as decimals m * 10^e with m >= 0, and their formatting *)

RECURSIVE NumDigits(_)
NumDigits(n) == IF n < 10 THEN 1 ELSE 1 + NumDigits(n \div 10)

\* the exponent of the leading digit of a value that is not 0
Mag(v) == v.e + NumDigits(v.m) - 1

\* faulty variant of Less: a <= b
LessOrEqual(a, b) ==
    IF a.m = 0 THEN TRUE
    ELSE IF b.m = 0 THEN FALSE
    ELSE IF Mag(a) # Mag(b) THEN Mag(a) < Mag(b)
    ELSE LET da == NumDigits(a.m)
             db == NumDigits(b.m)
         IN a.m * Pow10(Max(da, db) - da) <= b.m * Pow10(Max(da, db) - db)

\* a < b
Less(a, b) ==
    IF b.m = 0 THEN FALSE
    ELSE IF a.m = 0 THEN TRUE
    ELSE IF Mag(a) # Mag(b) THEN Mag(a) < Mag(b)
    ELSE LET da == NumDigits(a.m)
             db == NumDigits(b.m)
         IN a.m * Pow10(Max(da, db) - da) < b.m * Pow10(Max(da, db) - db)

\* n / 10^k rounded to the nearest integer, ties to even
RoundDiv(n, k) ==
    IF k <= 0 THEN n * Pow10(0 - k)
    ELSE LET q == n \div Pow10(k)
             r == n % Pow10(k)
         IN IF 2 * r > Pow10(k) \/ (2 * r = Pow10(k) /\ q % 2 = 1) THEN q + 1 ELSE q

\* '%.<decimals>f' % v: the text of v with that many decimals
FormatFixed(v, decimals) ==
    IF v.m = 0 \/ Mag(v) + decimals < -1
    THEN [m |-> 0, e |-> 0 - decimals]
    ELSE [m |-> RoundDiv(v.m, 0 - (v.e + decimals)), e |-> 0 - decimals]

\* '%.<decimals>e' % v: the text of v with one digit before the point
FormatExp(v, decimals) ==
    IF v.m = 0 THEN [m |-> 0, e |-> 0 - decimals]
    ELSE LET d == RoundDiv(v.m, NumDigits(v.m) - 1 - decimals)
         IN IF NumDigits(d) > decimals + 1
            THEN [m |-> d \div 10, e |-> Mag(v) + 1 - decimals]
            ELSE [m |-> d, e |-> Mag(v) - decimals]

\* faulty variant of FormatInt: the value is written with one decimal
FormatIntDecimal(v) == FormatFixed(v, 1)

\* '%d' % v: the text of the integer part of v
FormatInt(v) ==
    IF v.m = 0 \/ Mag(v) < 0 THEN [m |-> 0, e |-> 0]
    ELSE IF v.e >= 0 THEN [m |-> v.m * Pow10(v.e), e |-> 0]
    ELSE [m |-> v.m \div Pow10(0 - v.e), e |-> 0]

---------------------------------------------------------------------------
(* BlastTabWriter *)

\* adjust_coords would raise ValueError: the strand of the sequence is None
StrandMissing(field, frag) ==
    LET seq_type == IF field \in {"qstart", "qend"} THEN "query" ELSE "hit"
    IN Get(frag, seq_type \o "_strand") \in {None, Some(None)}

\* faulty variant of adjust_coords: the strand is not looked at
adjust_coordsNoSwap(field, value, frag) ==
    IF field \in {"qstart", "sstart"} THEN value + 1 ELSE value

\* faulty variant of adjust_coords: start and end are swapped when the stored
\* start is not below the stored end
adjust_coordsByMagnitude(field, value, frag) ==
    LET seq_type == IF field \in {"qstart", "qend"} THEN "query" ELSE "hit"
    IN IF frag[seq_type \o "_start"] >= frag[seq_type \o "_end"]
       THEN IF field \in {"qstart", "sstart"}
            THEN frag[seq_type \o "_end"]
            ELSE frag[seq_type \o "_start"] + 1
       ELSE IF field \in {"qstart", "sstart"} THEN value + 1
       ELSE value

adjust_coords(field, value, frag) ==
    LET seq_type == IF field \in {"qstart", "qend"} THEN "query" ELSE "hit"
        strand == frag[seq_type \o "_strand"][1]
    IN IF strand < 0
       THEN IF field \in {"qstart", "sstart"}
            THEN frag[seq_type \o "_end"]
            ELSE frag[seq_type \o "_start"] + 1
       ELSE IF field \in {"qstart", "sstart"} THEN value + 1
       ELSE value

\* adjust_output: the text of a value in the column named field; caster is the
\* type the value has (the type the catalog gives the column)
adjust_output(field, value, caster) ==
    IF field = "evalue"
    THEN IF Less(value, [m |-> 1, e |-> -180]) THEN [m |-> 0, e |-> -1]
         ELSE IF Less(value, [m |-> 1, e |-> -99]) THEN FormatExp(value, 0)
         ELSE IF Less(value, [m |-> 9, e |-> -4]) THEN FormatExp(value, 0)
         ELSE IF Less(value, [m |-> 1, e |-> -1]) THEN FormatFixed(value, 3)
         ELSE IF Less(value, [m |-> 1, e |-> 0]) THEN FormatFixed(value, 2)
         ELSE IF Less(value, [m |-> 1, e |-> 1]) THEN FormatFixed(value, 1)
         ELSE FormatFixed(value, 0)
    ELSE IF field \in {"pident", "ppos"} THEN FormatFixed(value, 2)
    ELSE IF field = "bitscore"
    THEN IF Less([m |-> 9999, e |-> 0], value) THEN FormatExp(value, 3)
         ELSE IF Less([m |-> 999, e |-> -1], value) THEN FormatInt(value)
         ELSE FormatFixed(value, 1)
    ELSE IF caster = "int" THEN DecStr(value)
    ELSE value

\* the attribute a column is written from, as << owner, name, type >>, or None
\* for a column no catalog knows (build_rows skips it)
ColumnSource(field) ==
    IF field \in DOMAIN _COLUMN_QRESULT THEN Some(<<"qresult">> \o _COLUMN_QRESULT[field])
    ELSE IF field \in DOMAIN _COLUMN_HIT THEN Some(<<"hit">> \o _COLUMN_HIT[field])
    ELSE IF field = "frames" THEN Some(<<"frames", "frames", "str">>)
    ELSE IF field \in DOMAIN _COLUMN_HSP THEN Some(<<"hsp">> \o _COLUMN_HSP[field])
    ELSE IF field \in DOMAIN _COLUMN_FRAG THEN Some(<<"frag">> \o _COLUMN_FRAG[field])
    ELSE None

\* build_rows can write the column: the attribute exists, the frames and the
\* strand it needs are not None
ColumnOK(field, qresult, hit, hsp) ==
    LET src == ColumnSource(field)
        frag == hsp.fragments[1]
    IN \/ src = None
       \/ /\ src[1][1] = "qresult" => src[1][2] \in DOMAIN qresult
          /\ src[1][1] = "hit" => src[1][2] \in DOMAIN hit
          /\ src[1][1] = "hsp" => src[1][2] \in DOMAIN hsp
          /\ src[1][1] = "frag" =>
                /\ src[1][2] \in DOMAIN frag
                /\ src[1][2] \in {"query_frame", "hit_frame"} => frag[src[1][2]] # None
          /\ src[1][1] = "frames" =>
                /\ Get(frag, "query_frame") \notin {None, Some(None)}
                /\ Get(frag, "hit_frame") \notin {None, Some(None)}
          /\ field \in {"qstart", "qend", "sstart", "send"} => ~StrandMissing(field, frag)

\* the text build_rows writes in the column
ColumnText(field, qresult, hit, hsp) ==
    LET src == ColumnSource(field)[1]
        frag == hsp.fragments[1]
        value == CASE src[1] = "qresult" -> qresult[src[2]]
                   [] src[1] = "hit" -> hit[src[2]]
                   [] src[1] = "hsp" -> hsp[src[2]]
                   [] src[1] = "frames" -> <<DecStr(frag.query_frame[1]), DecStr(frag.hit_frame[1])>>
                   [] src[2] \in {"query_frame", "hit_frame"} -> frag[src[2]][1]
                   [] OTHER -> frag[src[2]]
    IN IF field \in {"qstart", "qend", "sstart", "send"}
       THEN adjust_output(field, adjust_coords(field, value, frag), src[3])
       ELSE adjust_output(field, value, src[3])

\* the columns of the row of one HSP, the skipped ones left out
RECURSIVE RowCols(_, _, _, _, _)
RowCols(fs, n, qresult, hit, hsp) ==
    IF n = 0 THEN << >>
    ELSE IF ColumnSource(fs[n]) = None THEN RowCols(fs, n - 1, qresult, hit, hsp)
    ELSE Append(RowCols(fs, n - 1, qresult, hit, hsp), ColumnText(fs[n], qresult, hit, hsp))

\* a line as it reads in the written file: a row without columns is an empty line
WrittenRow(cols) == IF cols = << >> THEN BlankLine ELSE RowLine(cols)

\* build_rows(qresult): one line per HSP, hit by hit
build_rows(fs, qresult) ==
    ConcatAll([j \in DOMAIN qresult.hits |->
                  [m \in DOMAIN qresult.hits[j].hsps |->
                      WrittenRow(RowCols(fs, Len(fs), qresult, qresult.hits[j],
                                         qresult.hits[j].hsps[m]))]])

BuildRowsOK(fs, qresult) ==
    \A j \in DOMAIN qresult.hits : \A m \in DOMAIN qresult.hits[j].hsps :
        \A n \in DOMAIN fs : ColumnOK(fs[n], qresult, qresult.hits[j], qresult.hits[j].hsps[m])

\* the long name of a column, inv_field_map[field]
LongName(field) == CHOOSE long \in DOMAIN _LONG_SHORT_MAP : _LONG_SHORT_MAP[long] = field

\* build_comments can write the header: program and target exist, and every
\* column has a long name when the Fields line is written
BuildCommentsOK(fs, qres) ==
    /\ {"program", "target", "id"} \subseteq DOMAIN qres
    /\ qres.hits # << >> =>
          \A n \in DOMAIN fs : \E long \in DOMAIN _LONG_SHORT_MAP : _LONG_SHORT_MAP[long] = fs[n]

\* faulty variant of build_comments: the Fields line is written for a query
\* result without hits too
build_commentsAlwaysFields(fs, qres) ==
    <<CommentLine("c_program",
                  IF "version" \in DOMAIN qres THEN <<Upper(qres.program), qres.version>>
                  ELSE <<Upper(qres.program)>>),
      CommentLine("c_query",
                  IF "description" \in DOMAIN qres THEN <<qres.id, qres.description>>
                  ELSE <<qres.id>>)>>
    \o (IF "rid" \in DOMAIN qres THEN <<CommentLine("c_rid", <<qres.rid>>)>> ELSE << >>)
    \o <<CommentLine("c_database", <<qres.target>>)>>
    \o <<CommentLine("c_fields", [n \in DOMAIN fs |-> LongName(fs[n])])>>
    \o <<CommentLine("c_hits", <<DecStr(Len(qres.hits))>>)>>

\* build_comments(qres): the header lines of one query result
build_comments(fs, qres) ==
    <<CommentLine("c_program",
                  IF "version" \in DOMAIN qres THEN <<Upper(qres.program), qres.version>>
                  ELSE <<Upper(qres.program)>>),
      CommentLine("c_query",
                  IF "description" \in DOMAIN qres THEN <<qres.id, qres.description>>
                  ELSE <<qres.id>>)>>
    \o (IF "rid" \in DOMAIN qres THEN <<CommentLine("c_rid", <<qres.rid>>)>> ELSE << >>)
    \o <<CommentLine("c_database", <<qres.target>>)>>
    \o (IF qres.hits # << >>
        THEN <<CommentLine("c_fields", [n \in DOMAIN fs |-> LongName(fs[n])])>>
        ELSE << >>)
    \o <<CommentLine("c_hits", <<DecStr(Len(qres.hits))>>)>>

\* faulty variant of WriteOne: the rows are written before the header
WriteOneRowsFirst(fs, comm, qresult) ==
    (IF qresult.hits # << >> THEN build_rows(fs, qresult) ELSE << >>)
    \o (IF comm THEN build_comments(fs, qresult) ELSE << >>)

\* what write_file writes for one query result
WriteOne(fs, comm, qresult) ==
    (IF comm THEN build_comments(fs, qresult) ELSE << >>)
    \o (IF qresult.hits # << >> THEN build_rows(fs, qresult) ELSE << >>)

WriteOneOK(fs, comm, qresult) ==
    /\ comm => BuildCommentsOK(fs, qresult)
    /\ qresult.hits # << >> => BuildRowsOK(fs, qresult)

\* faulty variant of CountOne: a query result is counted when it has hits, in
\* both modes
CountOneWithHits(comm, qresult, c) ==
    IF qresult.hits # << >>
    THEN <<c[1] + 1, c[2] + Len(qresult.hits),
           c[3] + Len(ConcatAll([j \in DOMAIN qresult.hits |-> qresult.hits[j].hsps]))>>
    ELSE c

\* one pass of the loop of write_file over the counters c = (qresult_counter,
\* hit_counter, hsp_counter)
CountOne(comm, qresult, c) ==
    LET rows == IF qresult.hits # << >>
                THEN <<IF ~comm THEN c[1] + 1 ELSE c[1],
                       c[2] + Len(qresult.hits),
                       c[3] + Len(ConcatAll([j \in DOMAIN qresult.hits |->
                                                qresult.hits[j].hsps]))>>
                ELSE c
    IN IF comm THEN <<rows[1] + 1, rows[2], rows[3]>> ELSE rows

\* the counters write_file returns
RECURSIVE WriteFileCounts(_, _)
WriteFileCounts(comm, qresults) ==
    IF qresults = << >> THEN <<0, 0, 0>>
    ELSE CountOne(comm, qresults[Len(qresults)],
                  WriteFileCounts(comm, SubSeq(qresults, 1, Len(qresults) - 1)))

\* the lines write_file writes for the query results
WriteFileLines(fs, comm, qresults) ==
    ConcatAll([k \in DOMAIN qresults |-> WriteOne(fs, comm, qresults[k])])
    \o (IF comm
        THEN <<CommentLine("c_processed", <<DecStr(WriteFileCounts(comm, qresults)[1])>>)>>
        ELSE << >>)

---------------------------------------------------------------------------
(* HmmerDomtabHmmhitWriter and HmmerDomtabHmmqueryWriter *)

\* '%.2g' % v: the text of v with two significant digits, zeros at its end
\* left out
FormatGeneral(v) == FloatOf(FormatExp(v, 1))

\* the three lines of the header; the widths that build_header computes from
\* the first query result are blanks only
build_header ==
    <<CommentLine("c_other", <<"--- full sequence ---">>),
      CommentLine("c_other", <<"target name">>),
      CommentLine("c_other", <<"-------------------">>)>>

\* qresult_acc of build_row: '-' when the query result or its first hit has
\* no accession
QresultAcc(qresult) ==
    IF "acc" \in DOMAIN qresult /\ "acc" \in DOMAIN qresult.hits[1] THEN qresult.acc ELSE "-"

\* hit_acc of build_row
HitAcc(hit) == IF "acc" \in DOMAIN hit THEN hit.acc ELSE "-"

\* faulty variant of HmmCoords: the coordinates of the hit are written as
\* those of the HMM profile by both writers
HmmCoordsOfHit(hsp, as_hit) ==
    LET frag == hsp.fragments[1]
    IN <<frag.hit_start + 1, frag.hit_end, frag.query_start + 1, frag.query_end>>

\* hmm_from, hmm_to, ali_from, ali_to of build_row
HmmCoords(hsp, as_hit) ==
    LET frag == hsp.fragments[1]
    IN IF as_hit
       THEN <<frag.hit_start + 1, frag.hit_end, frag.query_start + 1, frag.query_end>>
       ELSE <<frag.query_start + 1, frag.query_end, frag.hit_start + 1, frag.hit_end>>

\* the row of one HSP, as its tokens: the description is the last of them
DomtabRow(qresult, hit, hsp, as_hit) ==
    LET c == HmmCoords(hsp, as_hit)
    IN RowLine(<<hit.id, HitAcc(hit), DecStr(hit.seq_len), qresult.id, QresultAcc(qresult),
                 DecStr(qresult.seq_len), FormatGeneral(hit.evalue),
                 FormatFixed(hit.bitscore, 1), FormatFixed(hit.bias, 1),
                 DecStr(hsp.domain_index), DecStr(Len(hit.hsps)),
                 FormatGeneral(hsp.evalue_cond), FormatGeneral(hsp.evalue),
                 FormatFixed(hsp.bitscore, 1), FormatFixed(hsp.bias, 1),
                 DecStr(c[1]), DecStr(c[2]), DecStr(c[3]), DecStr(c[4]),
                 DecStr(hsp.env_start + 1), DecStr(hsp.env_end),
                 FormatFixed(hsp.acc_avg, 2)>> \o hit.description)

\* build_row: the rows of the HSPs of the hits of a query result
build_row(qresult, as_hit) ==
    ConcatAll([j \in DOMAIN qresult.hits |->
                  [m \in DOMAIN qresult.hits[j].hsps |->
                      DomtabRow(qresult, qresult.hits[j], qresult.hits[j].hsps[m], as_hit)]])

\* faulty variant of DomtabWriteOne: the header is written again before the
\* rows of each query result
DomtabWriteOneWithHeader(qresult, as_hit) ==
    IF qresult.hits # << >> THEN build_header \o build_row(qresult, as_hit) ELSE << >>

\* one pass of the loop of write_file: what it writes for a query result
DomtabWriteOne(qresult, as_hit) ==
    IF qresult.hits # << >> THEN build_row(qresult, as_hit) ELSE << >>

\* one pass of the loop of write_file over the counters c
DomtabCountOne(qresult, c) ==
    IF qresult.hits # << >>
    THEN <<c[1] + 1, c[2] + Len(qresult.hits),
           c[3] + Len(ConcatAll([j \in DOMAIN qresult.hits |-> qresult.hits[j].hsps]))>>
    ELSE c

RECURSIVE DomtabWriteFileCounts(_)
DomtabWriteFileCounts(qresults) ==
    IF qresults = << >> THEN <<0, 0, 0>>
    ELSE DomtabCountOne(qresults[Len(qresults)],
                        DomtabWriteFileCounts(SubSeq(qresults, 1, Len(qresults) - 1)))

\* the lines write_file writes: the header, for no query result too, and the
\* rows
DomtabWriteFileLines(qresults, as_hit) ==
    build_header \o ConcatAll([k \in DOMAIN qresults |-> DomtabWriteOne(qresults[k], as_hit)])

---------------------------------------------------------------------------
(* BlastTabIndexer: bytes and offsets of the file *)

RECURSIVE SumLen(_)
SumLen(texts) == IF texts = << >> THEN 0 ELSE Len(Head(texts)) + SumLen(Tail(texts))

\* the bytes of a comment line before its first value and after its last
CommentFrame(kind) ==
    CASE kind = "c_program" -> 2        \* '# '
      [] kind = "c_query" -> 9          \* '# Query: '
      [] kind = "c_database" -> 12      \* '# Database: '
      [] kind = "c_rid" -> 7            \* '# RID: '
      [] kind = "c_fields" -> 10        \* '# Fields: '
      [] kind = "c_hits" -> 13          \* '# ' and ' hits found'
      [] kind = "c_processed" -> 26     \* '# BLAST processed ' and ' queries'
      [] OTHER -> 1                     \* '#'

\* len(line) of a raw line whose values are strings: the values, what is
\* between them (a tab in a row, ', ' in a Fields line, a blank elsewhere) and
\* the newline
LineBytes(l) ==
    CASE l.kind = "empty" -> 0
      [] l.kind = "blank" -> 1
      [] l.kind = "row" -> SumLen(l.cols) + Len(l.cols)
      [] l.kind = "c_fields" -> CommentFrame(l.kind) + SumLen(l.cols) + 2 * (Len(l.cols) - 1) + 1
      [] OTHER -> CommentFrame(l.kind) + SumLen(l.cols) + Max(Len(l.cols) - 1, 0) + 1

\* handle.tell() when n lines of the file have been read
RECURSIVE Offset(_)
Offset(n) == IF n = 0 THEN 0 ELSE Offset(n - 1) + LineBytes(file[n])

\* handle.seek(offset): the number of lines that end at or before the offset
LinesBefore(offset) == CHOOSE n \in 0..Len(file) : Offset(n) = offset

\* handle.readline() when n lines have been read
LineAfter(n) == IF n < Len(file) THEN file[n + 1] ELSE EmptyLine

\* line.split('\t'): each part as the sequence of its pieces of text; the last
\* part of a line has the newline, a comment line has no tab, '' gives ['']
SplitTabs(l) ==
    CASE l.kind = "empty" -> << << >> >>
      [] l.kind = "blank" -> << <<"\n">> >>
      [] l.kind = "row" ->
            [i \in DOMAIN l.cols |->
                IF i < Len(l.cols) THEN <<l.cols[i]>> ELSE <<l.cols[i], "\n">>]
      [] OTHER -> << <<"#", l.kind>> \o l.cols \o <<"\n">> >>

\* line.split('\t')[key_idx], None for the IndexError
KeyOfLine(l, key_idx) ==
    IF key_idx + 1 <= Len(SplitTabs(l)) THEN Some(SplitTabs(l)[key_idx + 1]) ELSE None

\* __init__: the position of the key column in the column list as given, None
\* for the ValueError of a list without qseqid, qacc and qaccver
KeyIdx(fs) ==
    IF "qseqid" \in Range(fs) THEN Some(IndexOf(fs, "qseqid") - 1)
    ELSE IF "qacc" \in Range(fs) THEN Some(IndexOf(fs, "qacc") - 1)
    ELSE IF "qaccver" \in Range(fs) THEN Some(IndexOf(fs, "qaccver") - 1)
    ELSE None

\* no indexer is at work
NoIndexer ==
    [ipc |-> "none", key_idx |-> None, handle |-> 0, start_offset |-> 0, end_offset |-> 0,
     qresult_key |-> None, curr_key |-> None, query_mark |-> None, line |-> EmptyLine,
     triples |-> << >>, raws |-> << >>, parsed |-> None]

\* the indexer after __init__(filename, comments, fs), at the start of the
\* loop of __iter__
NewIndexer(comm, fs) ==
    IF ~comm /\ KeyIdx(fs) = None
    THEN [NoIndexer EXCEPT !.ipc = "error"]
    ELSE [NoIndexer EXCEPT !.ipc = "loop", !.key_idx = IF comm THEN None ELSE KeyIdx(fs)]

\* faulty variant of YieldTriple: every block is yielded from the start of the
\* file on
YieldTripleFromStart(ix) ==
    [key |-> ix.qresult_key[1], offset |-> 0, length |-> ix.end_offset]

\* yield qresult_key, start_offset, end_offset - start_offset
YieldTriple(ix) ==
    [key |-> ix.qresult_key[1], offset |-> ix.start_offset,
     length |-> ix.end_offset - ix.start_offset]

\* the end of a pass of the plain loop: break at the end of the file
AfterPass(ix) == IF ~Truthy(ix.line) THEN [ix EXCEPT !.ipc = "done"] ELSE ix

\* one pass of the loop of __iter__ over a file without comments, up to its
\* yield if it has one
PlainPass(ix) ==
    LET key == KeyOfLine(ix.line, ix.key_idx[1])
        curr_key == IF key = None THEN << >> ELSE key[1]
    IN IF ix.qresult_key = None
       THEN IF key = None THEN [ix EXCEPT !.ipc = "error"]
            ELSE AfterPass([ix EXCEPT !.qresult_key = key])
       ELSE IF curr_key # ix.qresult_key[1]
       THEN [ix EXCEPT !.curr_key = Some(curr_key), !.triples = Append(@, YieldTriple(ix)),
                       !.ipc = "yielded"]
       ELSE AfterPass(ix)

\* one pass of the loop of __iter__ over a commented file, up to its yield if
\* it has one
CommentPass(ix) ==
    IF ix.query_mark = None
    THEN [ix EXCEPT !.query_mark = Some(ix.line), !.start_offset = ix.end_offset]
    ELSE IF ix.line.kind = "c_query"
    THEN IF ix.line.cols = << >> THEN [ix EXCEPT !.ipc = "error"]
         ELSE [ix EXCEPT !.qresult_key = Some(<<ix.line.cols[1]>>)]
    ELSE IF ix.line = ix.query_mark[1] \/ ix.line.kind = "c_processed"
    THEN IF ix.qresult_key = None THEN [ix EXCEPT !.ipc = "error"]
         ELSE [ix EXCEPT !.triples = Append(@, YieldTriple(ix)), !.ipc = "yielded"]
    ELSE IF ~Truthy(ix.line) THEN [ix EXCEPT !.ipc = "done"]
    ELSE ix

\* __iter__: end_offset = handle.tell(), line = handle.readline(), and the
\* rest of the pass
IndexStep ==
    /\ indexer.ipc = "loop"
    /\ LET ix == [indexer EXCEPT !.end_offset = Offset(indexer.handle),
                                 !.line = LineAfter(indexer.handle),
                                 !.handle = IF @ < Len(file) THEN @ + 1 ELSE @]
       IN indexer' = IF has_comments THEN CommentPass(ix) ELSE PlainPass(ix)
    /\ UNCHANGED <<parser, has_comments, fields, file, pos, nreads, line, pc, cur, prev,
                   cur_qid, cur_hid, prev_qid, prev_hid, file_state, hit_list, hsp_list,
                   comments, out, fields_arg, origin, phase, source_qresults, written,
                   counts>>
    /\ UNCHANGED hmmer2

\* __iter__ goes on after its yield
IndexResume ==
    /\ indexer.ipc = "yielded"
    /\ indexer' =
          IF has_comments
          THEN [indexer EXCEPT !.start_offset = indexer.end_offset, !.ipc = "loop"]
          ELSE AfterPass([indexer EXCEPT !.qresult_key = indexer.curr_key,
                                         !.start_offset = indexer.end_offset,
                                         !.ipc = "loop"])
    /\ UNCHANGED <<parser, has_comments, fields, file, pos, nreads, line, pc, cur, prev,
                   cur_qid, cur_hid, prev_qid, prev_hid, file_state, hit_list, hsp_list,
                   comments, out, fields_arg, origin, phase, source_qresults, written,
                   counts>>
    /\ UNCHANGED hmmer2

\* get_raw without comments: the number of lines read when the loop breaks
\* after m lines, -1 if it never does
RECURSIVE PlainRawEnd(_, _, _)
PlainRawEnd(m, qresult_key, key_idx) ==
    LET key == KeyOfLine(LineAfter(m), key_idx)
        curr_key == IF key = None THEN << >> ELSE key[1]
    IN IF curr_key # qresult_key THEN m
       ELSE IF m >= Len(file) THEN -1
       ELSE PlainRawEnd(m + 1, qresult_key, key_idx)

\* get_raw with comments: the same, the line of 'BLAST processed' included
RECURSIVE CommentRawEnd(_, _)
CommentRawEnd(m, query_mark) ==
    IF LineAfter(m) = query_mark THEN m
    ELSE IF LineAfter(m).kind = "c_processed" THEN m + 1
    ELSE IF m >= Len(file) THEN -1
    ELSE CommentRawEnd(m + 1, query_mark)

\* the number of lines of the file that get_raw(offset) has in qresult_raw when
\* it returns, None for the IndexError of its first line, -1 if it never returns
RawLines(offset, comm, key_idx) ==
    LET n == LinesBefore(offset)
        first == LineAfter(n)
        m == IF n < Len(file) THEN n + 1 ELSE n
    IN IF comm
       THEN Some(IF first.kind = "c_processed" THEN m ELSE CommentRawEnd(m, first))
       ELSE IF KeyOfLine(first, key_idx[1]) = None THEN None
            ELSE Some(PlainRawEnd(m, KeyOfLine(first, key_idx[1])[1], key_idx[1]))

\* get_raw(offset): whether it returns, and the number of bytes it returns
get_raw(offset, comm, key_idx) ==
    LET end == RawLines(offset, comm, key_idx)
    IN IF end = None \/ end = Some(-1) THEN [returns |-> FALSE, bytes |-> 0]
       ELSE [returns |-> TRUE, bytes |-> Offset(end[1]) - offset]

\* when the index is built, get_raw is called with the offset of the next of
\* the yielded triples
GetRaw ==
    /\ origin = "index"
    /\ indexer.ipc = "done"
    /\ Len(indexer.raws) < Len(indexer.triples)
    /\ indexer' =
          [indexer EXCEPT
              !.raws = Append(@, get_raw(indexer.triples[Len(@) + 1].offset, has_comments,
                                         indexer.key_idx))]
    /\ UNCHANGED <<parser, has_comments, fields, file, pos, nreads, line, pc, cur, prev,
                   cur_qid, cur_hid, prev_qid, prev_hid, file_state, hit_list, hsp_list,
                   comments, out, fields_arg, origin, phase, source_qresults, written,
                   counts>>
    /\ UNCHANGED hmmer2

\* the lines of the file in the bytes [offset, offset + length) of triple t
RawOf(t) == SubSeq(file, LinesBefore(t.offset) + 1, LinesBefore(t.offset + t.length))

\* a new BlastTabIterator, with the mode and the column list of the indexer,
\* on the bytes of one of the yielded triples alone (k > 0) or on the whole
\* file (k = 0)
ParseIndexed ==
    /\ origin = "index"
    /\ indexer.ipc = "done"
    /\ \E k \in 0..Len(indexer.triples) :
          LET f == IF k = 0 THEN file ELSE RawOf(indexer.triples[k])
          IN /\ indexer' = [indexer EXCEPT !.parsed = Some(k)]
             /\ file' = f
             /\ IF PrepFieldsFails(fields_arg)
                THEN /\ fields' = << >>
                     /\ line' = EmptyLine
                     /\ pos' = 0
                     /\ nreads' = 0
                     /\ pc' = "error"
                ELSE /\ fields' = _prep_fields(fields_arg)
                     /\ line' = Strip(IF Len(f) > 0 THEN f[1] ELSE EmptyLine)
                     /\ pos' = IF Len(f) > 0 THEN 1 ELSE 0
                     /\ nreads' = 1
                     /\ pc' = "start"
    /\ origin' = "raw"
    /\ EnterParseQresult
    /\ comments' = EmptyMap
    /\ UNCHANGED <<parser, has_comments, out, fields_arg, phase, source_qresults, written,
                   counts>>
    /\ UNCHANGED hmmer2

---------------------------------------------------------------------------
(* Hmmer2TextIterator: Bio/SearchIO/HmmerIO/hmmer2text.py                  *)
(* A line of HMMER 2 text is told apart by the tests of the code on it:    *)
(* kind is what it starts with ("Query", "Accession", "Description",       *)
(* "Scores", "Model", "Sequence", "dashes", "Parsed", "Alignments",        *)
(* "Histogram", "hmm", "HMMER is", "HMMER"), "//" for the line that is     *)
(* '//', "dashes36" and "dashes32" for the rulers of the preamble,         *)
(* "option" for a 'key: value' line, "hit_row" and "hsp_row" for the rows  *)
(* of the two tables, "align_head" for a line the pattern                  *)
(* '(\S+):\s+domain (\d+) of (\d+)' is found in, "align_seq" for a line    *)
(* that starts with a blank, "text" for any other line.                    *)

H2Line(kind, cols) == [kind |-> kind, cols |-> cols]

\* the index of the first line of f after line p that strip() leaves
\* something of, Len(f) + 1 when there is none
RECURSIVE NextNonBlank(_, _)
NextNonBlank(f, p) ==
    IF p >= Len(f) THEN Len(f) + 1
    ELSE IF Truthy(Strip(f[p + 1])) THEN p + 1
    ELSE NextNonBlank(f, p + 1)

\* read_next() on handle f at p, with self.buf = b and self.line = l: the
\* value returned, self.line, self.buf, the handle and the number of
\* readline() calls.  A line popped from the buffer is returned and
\* self.line is left as it is.
read_next(f, b, l, p) ==
    IF Len(b) > 0
    THEN [ret |-> b[Len(b)], line |-> l, buf |-> SubSeq(b, 1, Len(b) - 1), pos |-> p,
          reads |-> 0]
    ELSE LET n == NextNonBlank(f, p)
             got == IF n <= Len(f) THEN f[n] ELSE EmptyLine
         IN [ret |-> got, line |-> got, buf |-> b, pos |-> Min(n, Len(f)),
             reads |-> n - p]

\* push_back(line)
push_back(b, l) == Append(b, l)

\* parse_preamble from line p on in state st with meta so far: the dict, the
\* handle, self.line, the readline() calls, and whether no assertion failed and
\* no line of the options lacked its colon
RECURSIVE PreambleLoop(_, _, _, _, _)
PreambleLoop(f, p, st, meta, reads) ==
    LET r == read_next(f, << >>, EmptyLine, p)
        l == r.line
        n == reads + r.reads
        done(ok) == [meta |-> meta, pos |-> r.pos, line |-> l, reads |-> n, ok |-> ok]
    IN IF ~Truthy(r.ret) THEN done(TRUE)
       ELSE IF st = "GENERIC"
       THEN IF l.kind = "hmm"
            THEN PreambleLoop(f, r.pos, st, Put(meta, "program", l.cols[1]), n)
            ELSE IF l.kind = "HMMER is" THEN PreambleLoop(f, r.pos, st, meta, n)
            ELSE IF l.kind = "HMMER"
            THEN PreambleLoop(f, r.pos, st, Put(meta, "version", l.cols[1]), n)
            ELSE IF l.kind = "dashes36" THEN PreambleLoop(f, r.pos, "OPTIONS", meta, n)
            ELSE PreambleLoop(f, r.pos, st, meta, n)
       ELSE IF "program" \notin DOMAIN meta THEN done(FALSE)
       ELSE IF l.kind = "dashes32" THEN done(TRUE)
       ELSE IF l.kind # "option" THEN done(FALSE)
       ELSE LET key == l.cols[1]
                value == l.cols[2]
                target ==
                    \/ meta["program"] = "hmmsearch" /\ key = "Sequence database"
                    \/ meta["program"] = "hmmpfam" /\ key = "HMM file"
            IN PreambleLoop(f, r.pos, st,
                            Put(meta, IF target THEN "target" ELSE key, value), n)

parse_preamble(f) == PreambleLoop(f, 0, "GENERIC", EmptyMap, 0)

\* QueryResult(id_)
NewQueryResult(id_) == [id |-> id_, hits |-> << >>]

\* the place of the hit called id_ in the query result, 0 when it has none
HitIndex(q, id_) ==
    IF \E i \in DOMAIN q.hits : q.hits[i].id = id_
    THEN CHOOSE i \in DOMAIN q.hits :
             /\ q.hits[i].id = id_
             /\ \A j \in DOMAIN q.hits : q.hits[j].id = id_ => i <= j
    ELSE 0

\* the Hit of one row of the hit table: id, description, score, E-value, N
HitOfRow(l, qid) ==
    LET k == Len(l.cols)
    IN [id |-> l.cols[1], query_id |-> qid, evalue |-> FloatOf(l.cols[k - 1]),
        score |-> FloatOf(l.cols[k - 2]), desc |-> SubSeq(l.cols, 2, k - 3),
        n |-> DecInt(l.cols[k]), hsps |-> << >>]

\* the HSP of one row of the domain table: id, domain, seq-f, seq-t, the
\* completeness of the sequence, hmm-f, hmm-t, the completeness of the model,
\* score, E-value; the domain is 'index/count'
HspOfRow(l, qid, meta) ==
    LET base == [hit_id |-> l.cols[1], query_id |-> qid, evalue |-> FloatOf(l.cols[10]),
                 bitscore |-> FloatOf(l.cols[9]), domain_index |-> DecInt(l.cols[2][1])]
        seq_f == DecInt(l.cols[3])
        seq_t == DecInt(l.cols[4])
        hmm_f == DecInt(l.cols[6])
        hmm_t == DecInt(l.cols[7])
    IN IF meta["program"] \in {"hmmpfam", "hmmsearch"}
       THEN SetAll(base, [hit_start |-> hmm_f, hit_end |-> hmm_t, query_start |-> seq_f,
                          query_end |-> seq_t])
       ELSE base

\* self.qresult[id_].append(hsp)
AppendHsp(q, i, hsp) == [q EXCEPT !.hits[i].hsps = Append(@, hsp)]

\* the lines of one alignment, read three at a time from line p on while the
\* first of the three starts with a blank: the three texts gathered, the
\* handle, self.line, the readline() calls, and whether no index failed.  The
\* buffer is empty while this loop runs.  Of a line of another kind than
\* "align_seq" nothing is left after its column 19.
RECURSIVE TripletLoop(_, _, _)
TripletLoop(f, p, acc) ==
    LET r1 == read_next(f, << >>, EmptyLine, p)
        r2 == read_next(f, << >>, EmptyLine, r1.pos)
        r3 == read_next(f, << >>, EmptyLine, r2.pos)
        tail(l) == IF l.kind = "align_seq" THEN l.cols ELSE << >>
        a1 == [acc EXCEPT !.pos = r1.pos, !.line = r1.line, !.reads = @ + r1.reads]
        a2 == [a1 EXCEPT !.hmmseq = @ \o r1.line.cols, !.pos = r2.pos, !.line = r2.line,
                         !.reads = @ + r2.reads]
        a3 == [a2 EXCEPT !.consensus = @ \o tail(r2.line), !.pos = r3.pos,
                         !.line = r3.line, !.reads = @ + r3.reads]
    IN IF ~Truthy(r1.ret) \/ r1.line.kind # "align_seq" THEN a1
       ELSE IF ~Truthy(r2.ret) THEN a2
       ELSE IF ~Truthy(r3.ret) THEN a3
       ELSE IF tail(r3.line) = << >> THEN [a3 EXCEPT !.ok = FALSE]
       ELSE TripletLoop(f, r3.pos, [a3 EXCEPT !.otherseq = @ \o tail(r3.line)])

\* hsp.hit and hsp.query of the aligned domain
SetAlignment(hsp, hmmseq, otherseq, meta) ==
    IF meta["program"] = "hmmpfam"
    THEN SetAll(hsp, [hit |-> hmmseq, query |-> otherseq])
    ELSE SetAll(hsp, [hit |-> otherseq, query |-> hmmseq])

\* what __iter__ yields of the query result parse_qresult yields
WithMeta(q, meta) ==
    SetAll(q, [program |-> Get(meta, "program"), target |-> Get(meta, "target"),
               version |-> Get(meta, "version")])

\* what the steps of the iterator of HMMER 2 text leave alone
h2frame ==
    <<parser, has_comments, fields, file, cur, prev, cur_qid, cur_hid, prev_qid, prev_hid,
      file_state, hit_list, hsp_list, comments, fields_arg, origin, phase, source_qresults,
      written, counts, indexer, _meta>>

\* the handle, self.line and self.buf after the read_next() that gave r
H2Read(r) ==
    /\ line' = r.line
    /\ buf' = r.buf
    /\ pos' = r.pos
    /\ nreads' = nreads + r.reads

\* parse_qresult, one pass of "while self.read_next()": the generator ends at
\* the end of the file and at a line that does not start with 'Query', and
\* begins a query result at one that does
H2ParseQresult ==
    /\ parser = "hmmer2-text"
    /\ pc \in {"h2_parse_qresult", "h2_yielded"}
    /\ LET r == read_next(file, buf, line, pos)
       IN /\ H2Read(r)
          /\ IF ~Truthy(r.ret) \/ r.line.kind # "Query"
             THEN pc' = "done" /\ UNCHANGED self_qresult
             ELSE pc' = "h2_header" /\ self_qresult' = NewQueryResult(r.line.cols[1])
    /\ UNCHANGED <<out, h2frame>>

\* parse_qresult, one pass of the loop over the lines before 'Scores'
H2ParseHeader ==
    /\ parser = "hmmer2-text"
    /\ pc = "h2_header"
    /\ LET r == read_next(file, buf, line, pos)
       IN /\ H2Read(r)
          /\ IF ~Truthy(r.ret) \/ r.line.kind = "Scores"
             THEN pc' = "h2_parse_hits" /\ UNCHANGED self_qresult
             ELSE /\ pc' = pc
                  /\ self_qresult' =
                         IF r.line.kind = "Accession"
                         THEN Put(self_qresult, "acc", r.line.cols[1])
                         ELSE IF r.line.kind = "Description"
                         THEN Put(self_qresult, "desc", r.line.cols[1])
                         ELSE self_qresult
    /\ UNCHANGED <<out, h2frame>>

\* parse_hits, one pass of its loop; a line that is no row of the table and is
\* not skipped fails in int() or float()
H2ParseHits ==
    /\ parser = "hmmer2-text"
    /\ pc = "h2_parse_hits"
    /\ LET r == read_next(file, buf, line, pos)
       IN /\ H2Read(r)
          /\ IF ~Truthy(r.ret) \/ r.line.kind = "Parsed"
             THEN pc' = "h2_parse_hsps" /\ UNCHANGED self_qresult
             ELSE IF r.line.kind \in {"Sequence", "Model", "dashes"}
             THEN pc' = pc /\ UNCHANGED self_qresult
             ELSE IF r.line.kind = "hit_row"
             THEN /\ pc' = pc
                  /\ self_qresult' =
                         [self_qresult EXCEPT
                              !.hits = Append(@, HitOfRow(r.line, self_qresult.id))]
             ELSE pc' = "error" /\ UNCHANGED self_qresult
    /\ UNCHANGED <<out, h2frame>>

\* parse_hsps, one pass of its loop, and the test parse_hsp_alignments begins
\* with when the loop ends; a line that is no row of ten words and is not
\* skipped fails to unpack, a row of a hit the table of hits does not have
\* fails in self.qresult[id_]
H2ParseHsps ==
    /\ parser = "hmmer2-text"
    /\ pc = "h2_parse_hsps"
    /\ LET r == read_next(file, buf, line, pos)
       IN /\ H2Read(r)
          /\ IF ~Truthy(r.ret) \/ r.line.kind \in {"Alignments", "Histogram", "//"}
             THEN /\ pc' = IF r.line.kind = "Alignments"
                           THEN "h2_parse_hsp_alignments"
                           ELSE "h2_skip"
                  /\ UNCHANGED self_qresult
             ELSE IF r.line.kind \in {"Model", "Sequence", "dashes"}
             THEN pc' = pc /\ UNCHANGED self_qresult
             ELSE IF /\ r.line.kind = "hsp_row"
                     /\ "program" \in DOMAIN _meta
                     /\ HitIndex(self_qresult, r.line.cols[1]) # 0
             THEN /\ pc' = pc
                  /\ self_qresult' =
                         AppendHsp(self_qresult, HitIndex(self_qresult, r.line.cols[1]),
                                   HspOfRow(r.line, self_qresult.id, _meta))
             ELSE pc' = "error" /\ UNCHANGED self_qresult
    /\ UNCHANGED <<out, h2frame>>

\* parse_hsp_alignments, one pass of its outer loop: it ends at the end of the
\* file, at '//' and at 'Histogram'; at the head of an alignment it reads the
\* lines of the alignment, pushes the line that ended them back and stores the
\* sequences in the domain the head names
H2ParseHspAlignments ==
    /\ parser = "hmmer2-text"
    /\ pc = "h2_parse_hsp_alignments"
    /\ LET r == read_next(file, buf, line, pos)
           id_ == r.line.cols[1]
           idx == DecInt(r.line.cols[2])
           n == DecInt(r.line.cols[3])
           i == HitIndex(self_qresult, id_)
           hit == self_qresult.hits[i]
           k == IF idx = 0 THEN Len(hit.hsps) ELSE idx
           t == TripletLoop(file, r.pos,
                            [hmmseq |-> << >>, consensus |-> << >>, otherseq |-> << >>,
                             pos |-> r.pos, line |-> r.line, reads |-> 0, ok |-> TRUE])
       IN IF ~Truthy(r.ret) \/ r.line.kind \in {"//", "Histogram"}
          THEN H2Read(r) /\ pc' = "h2_skip" /\ UNCHANGED self_qresult
          ELSE IF r.line.kind # "align_head"
          THEN H2Read(r) /\ pc' = pc /\ UNCHANGED self_qresult
          ELSE IF i = 0
          THEN H2Read(r) /\ pc' = "error" /\ UNCHANGED self_qresult
          ELSE IF hit.n # n
          THEN H2Read(r) /\ pc' = pc /\ UNCHANGED self_qresult
          ELSE IF k \notin DOMAIN hit.hsps
          THEN H2Read(r) /\ pc' = "error" /\ UNCHANGED self_qresult
          ELSE /\ line' = t.line
               /\ pos' = t.pos
               /\ nreads' = nreads + r.reads + t.reads
               /\ IF t.ok /\ "program" \in DOMAIN _meta
                  THEN /\ buf' = push_back(r.buf, t.line)
                       /\ pc' = pc
                       /\ self_qresult' =
                              [self_qresult EXCEPT
                                   !.hits[i].hsps[k] =
                                       SetAlignment(@, t.hmmseq, t.otherseq, _meta)]
                  ELSE /\ buf' = r.buf
                       /\ pc' = "error"
                       /\ UNCHANGED self_qresult
    /\ UNCHANGED <<out, h2frame>>

\* parse_qresult, one pass of "while self.read_next() and self.line != '//'",
\* and the yield, through __iter__, when the loop ends
H2Skip ==
    /\ parser = "hmmer2-text"
    /\ pc = "h2_skip"
    /\ LET r == read_next(file, buf, line, pos)
       IN /\ H2Read(r)
          /\ IF ~Truthy(r.ret) \/ r.line.kind = "//"
             THEN /\ pc' = "h2_yielded"
                  /\ out' = Append(out, WithMeta(self_qresult, _meta))
             ELSE pc' = pc /\ UNCHANGED out
    /\ UNCHANGED <<self_qresult, h2frame>>

---------------------------------------------------------------------------
(* Inputs *)

QIds == {"q1", "q2"}

HIds == {"h1", "h2"}

Coords == (1..MaxCoord) \cup {12}

\* rows that differ in their keys only
GroupRows == [q : QIds, h : HIds, qs : {1}, qe : {3}, ss : {2}, se : {2}, n : {0}]

\* rows that differ in their raw coordinates only
CoordRows ==
    [q : {"q1"}, h : {"h1"}, qs : Coords, qe : Coords, ss : Coords, se : Coords, n : {0}]

\* the row r as the i-th row of a stream
Numbered(r, i) == [r EXCEPT !.n = 30 + i]

\* the text of column sname of the row r in BLAST+ tabular output; the
\* alignment length tells the rows of a stream apart
BlastValue(sname, r) ==
    CASE sname \in {"qseqid", "qacc", "qaccver"} -> r.q
      [] sname \in {"sseqid", "sacc", "saccver"} -> r.h
      [] sname = "qstart" -> DecStr(r.qs)
      [] sname = "qend" -> DecStr(r.qe)
      [] sname = "sstart" -> DecStr(r.ss)
      [] sname = "send" -> DecStr(r.se)
      [] sname \in {"qframe", "sframe"} -> DecStr(1)
      [] sname = "frames" -> <<DecStr(1), DecStr(1)>>
      [] sname = "pident" -> [m |-> 10000, e |-> -2]
      [] sname = "ppos" -> [m |-> 10000, e |-> -2]
      [] sname = "evalue" -> [m |-> 1, e |-> -5]
      [] sname = "bitscore" -> [m |-> 505, e |-> -1]
      [] sname = "length" -> DecStr(r.n)
      [] sname \in {"qlen", "slen", "score", "nident", "positive"} -> DecStr(30)
      [] sname \in {"mismatch", "gaps", "gapopen"} -> DecStr(0)
      [] OTHER -> "x"

BlastLine(fs, r) == RowLine([i \in DOMAIN fs |-> BlastValue(fs[i], r)])

\* the row r as a line of a HMMER domain table; the domain number tells the
\* rows of a stream apart
DomtabLine(r) ==
    RowLine(<<r.h, "-", DecStr(100), r.q, "-", DecStr(50),
              [m |-> 1, e |-> -5], [m |-> 505, e |-> -1], [m |-> 1, e |-> -1],
              DecStr(r.n), DecStr(1),
              [m |-> 2, e |-> -7], [m |-> 1, e |-> -5], [m |-> 505, e |-> -1],
              [m |-> 1, e |-> -1],
              DecStr(r.ss), DecStr(r.se), DecStr(r.qs), DecStr(r.qe),
              DecStr(r.qs), DecStr(r.qe), [m |-> 95, e |-> -2], "desc">>)

\* the comment lines of a commented BLAST+ tabular file
DefaultLongFields ==
    <<"query id", "subject id", "% identity", "alignment length", "mismatches",
      "gap opens", "q. start", "q. end", "s. start", "s. end", "evalue", "bit score">>

SomeLines ==
    {CommentLine("c_program", <<"TBLASTN", "2.2.26+">>),
     CommentLine("c_query", <<"q1", "desc">>),
     CommentLine("c_database", <<"db">>),
     CommentLine("c_fields", DefaultLongFields),
     CommentLine("c_hits", << >>),
     CommentLine("c_processed", << >>),
     CommentLine("c_other", << >>),
     BlankLine,
     BlastLine(_DEFAULT_FIELDS, [q |-> "q1", h |-> "h1", qs |-> 1, qe |-> 3, ss |-> 2, se |-> 2, n |-> 31]),
     BlastLine(_DEFAULT_FIELDS, [q |-> "q2", h |-> "h1", qs |-> 1, qe |-> 3, ss |-> 2, se |-> 2, n |-> 32])}

\* the state after BlastTabIterator.__init__(handle, comments, fs) on a file
\* or, when _prep_fields raises, the state in which the construction ends
InitBlast(f, comm, fs) ==
    /\ parser = "blasttab"
    /\ has_comments = comm
    /\ fields_arg = fs
    /\ origin = "file"
    /\ phase = "source"
    /\ source_qresults = << >>
    /\ written = << >>
    /\ counts = <<0, 0, 0>>
    /\ indexer = NoIndexer
    /\ buf = << >> /\ _meta = << >> /\ self_qresult = << >>
    /\ file = f
    /\ IF PrepFieldsFails(fs)
       THEN /\ fields = << >>
            /\ line = EmptyLine
            /\ pos = 0
            /\ nreads = 0
            /\ pc = "error"
       ELSE /\ fields = _prep_fields(fs)
            /\ line = Strip(IF Len(f) > 0 THEN f[1] ELSE EmptyLine)
            /\ pos = IF Len(f) > 0 THEN 1 ELSE 0
            /\ nreads = 1
            /\ pc = "start"
    /\ cur = None /\ prev = None
    /\ cur_qid = None /\ cur_hid = None /\ prev_qid = None /\ prev_hid = None
    /\ file_state = None
    /\ hit_list = << >> /\ hsp_list = << >>
    /\ comments = EmptyMap
    /\ out = << >>

\* the state in which parse_qresult of a domtab iterator starts on a file whose
\* first line has been read
InitDomtab(f, variant) ==
    /\ parser = variant
    /\ has_comments = FALSE
    /\ fields = << >>
    /\ fields_arg = << >>
    /\ origin = "file"
    /\ phase = "source"
    /\ source_qresults = << >>
    /\ written = << >>
    /\ counts = <<0, 0, 0>>
    /\ indexer = NoIndexer
    /\ buf = << >> /\ _meta = << >> /\ self_qresult = << >>
    /\ file = f
    /\ line = f[1]
    /\ pos = 1
    /\ nreads = 1
    /\ pc = "parse_qresult"
    /\ cur = None /\ prev = None
    /\ cur_qid = None /\ cur_hid = None /\ prev_qid = None /\ prev_hid = None
    /\ file_state = None
    /\ hit_list = << >> /\ hsp_list = << >>
    /\ comments = EmptyMap
    /\ out = << >>

\* streams of data rows, for both formats
InitRows ==
    \E rs \in SeqsUpTo(GroupRows, MaxRows) :
        \/ InitBlast([i \in DOMAIN rs |-> BlastLine(_DEFAULT_FIELDS, Numbered(rs[i], i))], FALSE,
                     _DEFAULT_FIELDS)
        \/ /\ Len(rs) > 0
           /\ \E variant \in {"domtab-hmmhit", "domtab-hmmquery"} :
                  InitDomtab([i \in DOMAIN rs |-> DomtabLine(Numbered(rs[i], i))], variant)

\* a row of a HMMER domain table may have a description of 0, 1, 2 or 3
\* tokens, or lack its last column too
TokenRows == [q : QIds, ntokens : {21, 22, 23, 24, 25}]

TokenLine(r, i) ==
    LET l == DomtabLine([q |-> r.q, h |-> "h1", qs |-> 1, qe |-> 3, ss |-> 2, se |-> 2,
                         n |-> 30 + i])
    IN IF r.ntokens <= 23 THEN RowLine(SubSeq(l.cols, 1, r.ntokens))
       ELSE RowLine(SubSeq(l.cols, 1, 22) \o SubSeq(<<"a", "long", "desc">>, 1, r.ntokens - 22))

\* domain tables of which the rows have any of these numbers of tokens
InitTokens ==
    \E rs \in SeqsUpTo(TokenRows, MaxTokenRows) : \E variant \in {"domtab-hmmhit", "domtab-hmmquery"} :
        /\ Len(rs) > 0
        /\ InitDomtab([i \in DOMAIN rs |-> TokenLine(rs[i], i)], variant)

\* one row of a domain table with any hmm and ali coordinates, in both variants
InitDomtabCoords ==
    \E r \in CoordRows : \E variant \in {"domtab-hmmhit", "domtab-hmmquery"} :
        InitDomtab(<<DomtabLine(Numbered(r, 1))>>, variant)

\* one BLAST row with any raw coordinates
InitCoords ==
    \E r \in CoordRows :
        InitBlast(<<BlastLine(_DEFAULT_FIELDS, Numbered(r, 1))>>, FALSE, _DEFAULT_FIELDS)

\* any short BLAST file, read in plain mode and in comment mode
InitLines ==
    \E f \in SeqsUpTo(SomeLines, MaxLines) : \E comm \in BOOLEAN :
        InitBlast(f, comm, _DEFAULT_FIELDS)

\* a row of the default columns may be whole, lack its last column, or have
\* one column more
BrokenRows ==
    [q : QIds, cols : {"all", "short", "long"}]

BrokenLine(r, i) ==
    LET l == BlastLine(_DEFAULT_FIELDS,
                  [q |-> r.q, h |-> "h1", qs |-> 1, qe |-> 3, ss |-> 2, se |-> 2, n |-> 30 + i])
    IN CASE r.cols = "all" -> l
         [] r.cols = "short" -> RowLine(SubSeq(l.cols, 1, Len(l.cols) - 1))
         [] r.cols = "long" -> RowLine(Append(l.cols, "x"))

\* plain files of which some rows have not the number of columns of the list
InitBroken ==
    \E rs \in SeqsUpTo(BrokenRows, MaxRows) :
        InitBlast([i \in DOMAIN rs |-> BrokenLine(rs[i], i)], FALSE, _DEFAULT_FIELDS)

\* column lists a caller may give
FieldLists ==
    {<<"qseqid", "sseqid", "evalue">>,
     <<"qacc", "sacc", "qstart", "qend", "sstart", "send">>,
     <<"qseqid", "sseqid", "qframe", "sframe", "bitscore">>,
     <<"qseqid", "sseqid", "frames", "length">>,
     <<"qseqid", "sseqid", "staxids", "length">>,
     <<"qseqid", "sseqid", "qstart", "qend">>,
     <<"qaccver", "saccver", "evalue">>,
     <<"qseqid", "evalue">>,
     <<"sacc", "evalue">>,
     <<"evalue", "bitscore">>,
     <<"std">>,
     <<"qlen", "std", "std">>,
     <<"sseqid", "std", "qlen">>}

\* the rows of the streams in other column lists: one has its query on the
\* minus strand
FieldRows ==
    GroupRows \cup {[q |-> "q1", h |-> "h1", qs |-> 3, qe |-> 1, ss |-> 2, se |-> 2, n |-> 0]}

\* streams of BLAST rows in the column order of any of the column lists
InitFields ==
    \E fs \in FieldLists : \E rs \in SeqsUpTo(FieldRows, MaxFieldRows) :
        InitBlast([i \in DOMAIN rs |-> BlastLine(ExpandStd(fs), Numbered(rs[i], i))], FALSE, fs)

\* column lists with one coordinate of a pair and not the other
HalfLists ==
    {<<"qseqid", "sseqid", "qstart">>,
     <<"qseqid", "sseqid", "qend">>,
     <<"qseqid", "sseqid", "sstart", "evalue">>,
     <<"qseqid", "send", "sseqid">>,
     <<"qseqid", "sseqid", "qstart", "qend", "sstart">>}

\* streams of BLAST rows in the column order of such a list
InitHalf ==
    \E fs \in HalfLists : \E rs \in SeqsUpTo(FieldRows, MaxFieldRows) :
        InitBlast([i \in DOMAIN rs |-> BlastLine(fs, Numbered(rs[i], i))], FALSE, fs)

\* the state in which a caller holds query results it built and gives them to
\* BlastTabWriter(handle, comments=comm, fields=fs)
InitWriter(qresults, comm, fs) ==
    /\ parser = "blasttab"
    /\ has_comments = comm
    /\ fields = << >>
    /\ fields_arg = fs
    /\ origin = "objects"
    /\ phase = "source"
    /\ source_qresults = << >>
    /\ written = << >>
    /\ counts = <<0, 0, 0>>
    /\ indexer = NoIndexer
    /\ buf = << >> /\ _meta = << >> /\ self_qresult = << >>
    /\ file = << >>
    /\ line = EmptyLine
    /\ pos = 0
    /\ nreads = 0
    /\ pc = "done"
    /\ cur = None /\ prev = None
    /\ cur_qid = None /\ cur_hid = None /\ prev_qid = None /\ prev_hid = None
    /\ file_state = None
    /\ hit_list = << >> /\ hsp_list = << >>
    /\ comments = EmptyMap
    /\ out = qresults

\* the column list of the query results a caller builds
ObjectFields == <<"qseqid", "sseqid", "qstart", "qend", "sstart", "send">>

\* a fragment with the stored coordinates and strands given
ObjectFrag(qid, hid, qstart, qend, qstrand, hstart, hend, hstrand) ==
    [query_id |-> qid, hit_id |-> hid, query_start |-> qstart, query_end |-> qend,
     query_strand |-> Some(qstrand), hit_start |-> hstart, hit_end |-> hend,
     hit_strand |-> Some(hstrand), query_frame |-> None, hit_frame |-> None]

\* a query result with one hit of one HSP of one fragment
ObjectQuery(qid, hid, frag) ==
    [id |-> qid,
     hits |-> <<[id |-> hid, query_id |-> qid, hsps |-> <<[fragments |-> <<frag>>]>>]>>]

\* one query result with any stored query coordinates and strand, in whatever
\* order, and some stored hit coordinates
InitStored ==
    \E qstart, qend \in 0..MaxCoord : \E qstrand \in {-1, 0, 1} :
        \E h \in {<<1, 2, 1>>, <<1, 2, -1>>, <<2, 1, 1>>, <<2, 2, 0>>} :
            InitWriter(<<ObjectQuery("q1", "h1",
                            ObjectFrag("q1", "h1", qstart, qend, qstrand, h[1], h[2], h[3]))>>,
                       FALSE, ObjectFields)

\* the comment lines a block may have besides its Query line and its hit count
MetaProfiles == {{"program", "description", "rid", "database"}, {"program", "database"}, {}}

\* a block is a header and no row ("zero"), one row of its query ("one"), a
\* row of its query and a row of the other query ("two"), or one row in a
\* column list without a column for the key of the hit ("nohitkey")
Blocks == [kind : {"zero", "one", "two", "nohitkey"}, meta : MetaProfiles, q : QIds]

\* the values of the k-th block of a file
Versions == <<"2.2.1+", "2.2.2+", "2.2.3+", "2.2.4+">>

Descriptions == <<"desc1", "desc2", "desc3", "desc4">>

Rids == <<"RID1", "RID2", "RID3", "RID4">>

Databases == <<"db1", "db2", "db3", "db4">>

OtherQuery(q) == CHOOSE other \in QIds : other # q

\* the rows of block b, the k-th of its file
BlockRowLines(b, k) ==
    LET row(q, i) == BlastLine(_DEFAULT_FIELDS,
                        [q |-> q, h |-> "h1", qs |-> 1, qe |-> 3, ss |-> 2, se |-> 2,
                         n |-> 10 * k + i])
    IN CASE b.kind = "zero" -> << >>
         [] b.kind = "nohitkey" ->
               <<BlastLine(<<"qseqid", "evalue">>,
                           [q |-> b.q, h |-> "h1", qs |-> 1, qe |-> 3, ss |-> 2, se |-> 2,
                            n |-> 10 * k + 1])>>
         [] b.kind = "one" -> <<row(b.q, 1)>>
         [] b.kind = "two" -> <<row(b.q, 1), row(OtherQuery(b.q), 2)>>

\* the lines of block b, the k-th of its file, as BLAST+ writes them
BlockLines(b, k) ==
    (IF "program" \in b.meta THEN <<CommentLine("c_program", <<"TBLASTN", Versions[k]>>)>>
     ELSE << >>)
    \o <<CommentLine("c_query", IF "description" \in b.meta THEN <<b.q, Descriptions[k]>>
                                ELSE <<b.q>>)>>
    \o (IF "rid" \in b.meta THEN <<CommentLine("c_rid", <<Rids[k]>>)>> ELSE << >>)
    \o (IF "database" \in b.meta THEN <<CommentLine("c_database", <<Databases[k]>>)>>
        ELSE << >>)
    \o (CASE b.kind = "zero" -> << >>
          [] b.kind = "nohitkey" -> <<CommentLine("c_fields", <<"query id", "evalue">>)>>
          [] OTHER -> <<CommentLine("c_fields", DefaultLongFields)>>)
    \o <<CommentLine("c_hits", <<DecStr(Len(BlockRowLines(b, k)))>>)>>
    \o BlockRowLines(b, k)

\* the files made of blocks, with or without the line that ends BLAST+ output
BlockFiles ==
    {ConcatAll([k \in DOMAIN bs |-> BlockLines(bs[k], k)])
        \o (IF processed THEN <<CommentLine("c_processed", <<DecStr(Len(bs))>>)>> ELSE << >>) :
     bs \in SeqsUpTo(Blocks, MaxBlocks) \ {<< >>}, processed \in BOOLEAN}

\* a commented file made of blocks, read in comment mode
InitBlocks == \E f \in BlockFiles : InitBlast(f, TRUE, _DEFAULT_FIELDS)

\* the Fields lines a block may have: the default one, the default one with
\* its two first columns in the other order, and one of three columns
SwappedLongFields ==
    <<"subject id", "query id">> \o SubSeq(DefaultLongFields, 3, Len(DefaultLongFields))

ShortLongFields == <<"query id", "alignment length", "subject id">>

FieldsLineOf(kind) ==
    CASE kind = "default" -> DefaultLongFields
      [] kind = "swapped" -> SwappedLongFields
      [] kind = "short" -> ShortLongFields

\* a block has no row and no Fields line ("zero"), or one row in the columns
\* of its Fields line
FieldBlocks == [kind : {"zero", "default", "swapped", "short"}, q : QIds]

FieldBlockLines(b, k) ==
    <<CommentLine("c_program", <<"TBLASTN", Versions[k]>>), CommentLine("c_query", <<b.q>>)>>
    \o (IF b.kind = "zero" THEN <<CommentLine("c_hits", <<DecStr(0)>>)>>
        ELSE LET long == FieldsLineOf(b.kind)
             IN <<CommentLine("c_fields", long), CommentLine("c_hits", <<DecStr(1)>>),
                  BlastLine([i \in DOMAIN long |-> _LONG_SHORT_MAP[long[i]]],
                            [q |-> b.q, h |-> "h1", qs |-> 1, qe |-> 3, ss |-> 2, se |-> 2,
                             n |-> 10 * k + 1])>>)

FieldBlockFiles ==
    {ConcatAll([k \in DOMAIN bs |-> FieldBlockLines(bs[k], k)])
        \o <<CommentLine("c_processed", <<DecStr(Len(bs))>>)>> :
     bs \in SeqsUpTo(FieldBlocks, MaxFieldBlocks) \ {<< >>}}

\* a commented file of blocks with whatever Fields lines, read in comment mode
InitFieldBlocks == \E f \in FieldBlockFiles : InitBlast(f, TRUE, _DEFAULT_FIELDS)

\* column lists with one, two or three key columns of the query and of the hit
KeyLists ==
    {<<"qseqid", "qacc", "qaccver", "sseqid", "sacc", "saccver", "length">>,
     <<"qaccver", "qacc", "saccver", "sacc", "length">>,
     <<"qaccver", "saccver", "length">>}

\* the value of each key column of a row
KeyRows == [qseqid : {"q1", "q2"}, qacc : {"qa1", "qa2"}, qaccver : {"qv1", "qv2"},
            sseqid : {"h1", "h2"}, sacc : {"ha1", "ha2"}, saccver : {"hv1", "hv2"}]

KeyLine(fs, r, i) ==
    RowLine([n \in DOMAIN fs |-> IF fs[n] = "length" THEN DecStr(30 + i) ELSE r[fs[n]]])

\* two rows of which the second has any values in its key columns
InitKeys ==
    \E fs \in KeyLists : \E r \in KeyRows :
        InitBlast(<<KeyLine(fs, [qseqid |-> "q1", qacc |-> "qa1", qaccver |-> "qv1",
                                 sseqid |-> "h1", sacc |-> "ha1", saccver |-> "hv1"], 1),
                    KeyLine(fs, r, 2)>>, FALSE, fs)

\* the state in which query results that a caller has built are given to the
\* writer of a variant of the domain table
InitDomtabWriter(qresults, variant) ==
    /\ parser = variant
    /\ has_comments = FALSE
    /\ fields = << >>
    /\ fields_arg = << >>
    /\ origin = "objects"
    /\ phase = "source"
    /\ source_qresults = << >>
    /\ written = << >>
    /\ counts = <<0, 0, 0>>
    /\ indexer = NoIndexer
    /\ buf = << >> /\ _meta = << >> /\ self_qresult = << >>
    /\ file = << >>
    /\ line = EmptyLine
    /\ pos = 0
    /\ nreads = 0
    /\ pc = "done"
    /\ cur = None /\ prev = None
    /\ cur_qid = None /\ cur_hid = None /\ prev_qid = None /\ prev_hid = None
    /\ file_state = None
    /\ hit_list = << >> /\ hsp_list = << >>
    /\ comments = EmptyMap
    /\ out = qresults

\* the numbers of HSPs of the hits of a query result: no hit, or one or two
\* hits of one or two HSPs
DomtabShapes == {<< >>, <<1>>, <<2>>, <<1, 1>>, <<1, 2>>}

\* the k-th query result of a sequence, with the hits of a shape; the domain
\* number tells the HSPs of the sequence apart
DomtabQuery(shape, k) ==
    [id |-> <<"q1", "q2", "q3">>[k], acc |-> "-", seq_len |-> 50,
     hits |-> [j \in DOMAIN shape |->
                  [id |-> <<"h1", "h2">>[j], query_id |-> <<"q1", "q2", "q3">>[k],
                   acc |-> "-", seq_len |-> 100,
                   evalue |-> [m |-> 1, e |-> -5], bitscore |-> [m |-> 505, e |-> -1],
                   bias |-> [m |-> 1, e |-> -1], description |-> <<"desc">>,
                   hsps |-> [m \in 1..shape[j] |->
                                [fragments |-> <<[hit_strand |-> Some(0), query_strand |-> Some(0),
                                                  hit_start |-> 1, hit_end |-> 2,
                                                  query_start |-> 0, query_end |-> 3]>>,
                                 domain_index |-> 100 * k + 10 * j + m,
                                 evalue_cond |-> [m |-> 2, e |-> -7],
                                 evalue |-> [m |-> 1, e |-> -5],
                                 bitscore |-> [m |-> 505, e |-> -1],
                                 bias |-> [m |-> 1, e |-> -1],
                                 env_start |-> 0, env_end |-> 3,
                                 acc_avg |-> [m |-> 95, e |-> -2]]]]]]

\* any sequence of query results, the empty one too, given to either writer
InitDomtabQueries ==
    \E shapes \in SeqsUpTo(DomtabShapes, MaxDomtabQueries) :
        \E variant \in {"domtab-hmmhit", "domtab-hmmquery"} :
            InitDomtabWriter([k \in DOMAIN shapes |-> DomtabQuery(shapes[k], k)], variant)

\* the preamble of the output of a program of HMMER 2
H2Preamble(program) ==
    <<H2Line("hmm", <<program>>),
      H2Line("HMMER", <<"2.3.2">>),
      H2Line("text", << >>),
      H2Line("dashes36", << >>),
      H2Line("option", <<"HMM file", "models.hmm">>),
      H2Line("option", <<"Sequence database", "seqs.fasta">>),
      H2Line("dashes32", << >>),
      BlankLine>>

\* what may stand between the table of domains of a block and its '//'
H2Endings == {"alignments", "histogram", "both", "none"}

\* the number of domains of the hit of the k-th block
H2Domains(k) == IF k = 2 THEN 2 ELSE 1

\* the row of domain j of n of the hit of the k-th block
H2HspRow(k, j, n) ==
    H2Line("hsp_row",
           <<"h1", <<DecStr(j), DecStr(n)>>, DecStr(10 * k + j), DecStr(10 * k + j + 5),
             "..", DecStr(j), DecStr(j + 5), "[]", [m |-> 505, e |-> -1],
             [m |-> 1, e |-> -5]>>)

\* the lines of one alignment: its head and two times three lines
H2Alignment(j, n) ==
    <<H2Line("align_head", <<"h1", DecStr(j), DecStr(n)>>),
      H2Line("align_seq", <<"*->", "acd">>),
      H2Line("align_seq", <<"+c+">>),
      H2Line("align_seq", <<"kcn">>),
      BlankLine,
      H2Line("align_seq", <<"efg", "<-*">>),
      H2Line("align_seq", <<"ef+">>),
      H2Line("align_seq", <<"efh">>),
      BlankLine>>

RECURSIVE H2Alignments(_, _)
H2Alignments(j, n) == IF j > n THEN << >> ELSE H2Alignment(j, n) \o H2Alignments(j + 1, n)

\* the k-th block of a file: its query, the table of hits, the table of
\* domains, the sections of the ending, and '//'
H2Block(k, ending) ==
    LET n == H2Domains(k)
    IN <<H2Line("Query", <<<<"q1", "q2", "q3", "q4">>[k]>>),
         H2Line("Accession", <<"PF0000">>),
         H2Line("Description", <<"desc">>),
         BlankLine,
         H2Line("Scores", << >>),
         H2Line("Model", << >>),
         H2Line("dashes", << >>),
         H2Line("hit_row", <<"h1", "a", "hit", [m |-> 505, e |-> -1], [m |-> 1, e |-> -5],
                             DecStr(n)>>),
         BlankLine,
         H2Line("Parsed", << >>),
         H2Line("Model", << >>),
         H2Line("dashes", << >>)>>
       \o [j \in 1..n |-> H2HspRow(k, j, n)]
       \o <<BlankLine>>
       \o (IF ending \in {"alignments", "both"}
           THEN <<H2Line("Alignments", << >>)>> \o H2Alignments(1, n)
           ELSE << >>)
       \o (IF ending \in {"histogram", "both"}
           THEN <<H2Line("Histogram", << >>), H2Line("text", << >>), BlankLine>>
           ELSE << >>)
       \o <<H2Line("//", << >>)>>

\* the blocks of the endings es, one after the other
RECURSIVE H2Blocks(_, _)
H2Blocks(es, k) ==
    IF k > Len(es) THEN << >> ELSE H2Block(k, es[k]) \o H2Blocks(es, k + 1)

\* the state after Hmmer2TextIterator.__init__(handle) on the file f: the
\* preamble is parsed
InitHmmer2(f) ==
    LET pre == parse_preamble(f)
    IN /\ parser = "hmmer2-text"
       /\ has_comments = FALSE
       /\ fields = << >>
       /\ fields_arg = << >>
       /\ origin = "file"
       /\ phase = "source"
       /\ source_qresults = << >>
       /\ written = << >>
       /\ counts = <<0, 0, 0>>
       /\ indexer = NoIndexer
       /\ buf = << >>
       /\ _meta = pre.meta
       /\ self_qresult = << >>
       /\ file = f
       /\ line = pre.line
       /\ pos = pre.pos
       /\ nreads = pre.reads
       /\ pc = IF pre.ok THEN "h2_parse_qresult" ELSE "error"
       /\ cur = None /\ prev = None
       /\ cur_qid = None /\ cur_hid = None /\ prev_qid = None /\ prev_hid = None
       /\ file_state = None
       /\ hit_list = << >> /\ hsp_list = << >>
       /\ comments = EmptyMap
       /\ out = << >>

\* the output of hmmpfam and of hmmsearch with up to MaxHmmer2Blocks blocks,
\* each with one of the endings
InitHmmer2Blocks ==
    \E es \in SeqsUpTo(H2Endings, MaxHmmer2Blocks) :
        \E program \in {"hmmpfam", "hmmsearch"} :
            InitHmmer2(H2Preamble(program) \o H2Blocks(es, 1))

\* the column list of the query results with scores
ScoreFields == <<"qseqid", "sseqid", "evalue", "bitscore", "pident", "ppos">>

\* expectation values on both sides of the thresholds of adjust_output, the
\* thresholds themselves, and 0
Evalues ==
    {[m |-> 0, e |-> 0], [m |-> 1, e |-> -181], [m |-> 1, e |-> -180],
     [m |-> 16, e |-> -101], [m |-> 1, e |-> -99], [m |-> 26, e |-> -6],
     [m |-> 89, e |-> -5], [m |-> 9, e |-> -4], [m |-> 1234, e |-> -5],
     [m |-> 1, e |-> -1], [m |-> 567, e |-> -3], [m |-> 1, e |-> 0],
     [m |-> 234, e |-> -2], [m |-> 1, e |-> 1], [m |-> 1234, e |-> -1]}

\* bit scores on both sides of the thresholds, and the thresholds themselves
Bitscores ==
    {[m |-> 505, e |-> -1], [m |-> 999, e |-> -1], [m |-> 1, e |-> 2],
     [m |-> 1237, e |-> -1], [m |-> 9999, e |-> 0], [m |-> 1, e |-> 4],
     [m |-> 12346, e |-> 0]}

\* percentages of identical and of positive residues
Percents == {[m |-> 1, e |-> 2], [m |-> 9876, e |-> -2], [m |-> 98766, e |-> -3], [m |-> 5, e |-> 1]}

\* one query result with one HSP that has the scores given
ScoredQuery(evalue, bitscore, ident_pct, pos_pct) ==
    [id |-> "q1",
     hits |-> <<[id |-> "h1", query_id |-> "q1",
                 hsps |-> <<[fragments |-> <<ObjectFrag("q1", "h1", 0, 3, 1, 1, 2, 1)>>,
                             evalue |-> evalue, bitscore |-> bitscore,
                             ident_pct |-> ident_pct, pos_pct |-> pos_pct]>>]>>]

\* a query result with any of the expectation values, or any of the bit
\* scores, or any of the percentages, given to the writer
InitScores ==
    \/ \E v \in Evalues :
          InitWriter(<<ScoredQuery(v, [m |-> 505, e |-> -1], [m |-> 1, e |-> 2],
                                   [m |-> 1, e |-> 2])>>, FALSE, ScoreFields)
    \/ \E b \in Bitscores :
          InitWriter(<<ScoredQuery([m |-> 1, e |-> -5], b, [m |-> 1, e |-> 2],
                                   [m |-> 1, e |-> 2])>>, FALSE, ScoreFields)
    \/ \E p1, p2 \in Percents :
          InitWriter(<<ScoredQuery([m |-> 1, e |-> -5], [m |-> 505, e |-> -1], p1, p2)>>,
                     FALSE, ScoreFields)

\* the query results a caller may build as the k-th of a sequence: with no hit,
\* one hit or two hits, with program, version and target, with or without
\* description and RID
ObjectQueries(k) ==
    {SetAll([id |-> q,
             hits |-> ConcatAll([j \in 1..nhits |->
                         ObjectQuery(q, <<"h1", "h2">>[j],
                                     ObjectFrag(q, <<"h1", "h2">>[j], 0, 3, 1, 1, 2, 1)).hits])],
            IF optional
            THEN [program |-> "tblastn", version |-> Versions[k], target |-> Databases[k],
                  description |-> Descriptions[k], rid |-> Rids[k]]
            ELSE [program |-> "tblastn", version |-> Versions[k], target |-> Databases[k]]) :
     nhits \in 0..2, q \in QIds, optional \in BOOLEAN}

\* a sequence of query results given to the writer, with or without comments
InitQueries ==
    \E n \in 1..MaxBlocks : \E qresults \in [1..n -> UNION {ObjectQueries(k) : k \in 1..n}] :
        \E comm \in BOOLEAN :
            /\ \A k \in 1..n : qresults[k] \in ObjectQueries(k)
            /\ InitWriter(qresults, comm, ObjectFields)

\* the state in which a BlastTabIndexer has been constructed on a file
InitIndexer(f, comm, fs) ==
    /\ parser = "blasttab"
    /\ has_comments = comm
    /\ fields = << >>
    /\ fields_arg = fs
    /\ origin = "index"
    /\ phase = "source"
    /\ source_qresults = << >>
    /\ written = << >>
    /\ counts = <<0, 0, 0>>
    /\ indexer = NewIndexer(comm, fs)
    /\ buf = << >> /\ _meta = << >> /\ self_qresult = << >>
    /\ file = f
    /\ line = EmptyLine
    /\ pos = 0
    /\ nreads = 0
    /\ pc = "none"
    /\ cur = None /\ prev = None
    /\ cur_qid = None /\ cur_hid = None /\ prev_qid = None /\ prev_hid = None
    /\ file_state = None
    /\ hit_list = << >> /\ hsp_list = << >>
    /\ comments = EmptyMap
    /\ out = << >>

\* column lists of the indexed files: the key column first, in the middle,
\* last, hidden in 'std', and missing
IndexFieldLists ==
    {<<"qseqid", "sseqid">>, <<"sacc", "qacc", "sseqid">>, <<"sseqid", "qseqid">>,
     <<"std">>, <<"sseqid", "evalue">>}

\* a data row with its values as text
TextRow(fs, q, h) ==
    RowLine([i \in DOMAIN fs |->
                IF fs[i] \in _MIN_QUERY_FIELDS THEN q
                ELSE IF fs[i] \in _MIN_HIT_FIELDS THEN h
                ELSE "1e-05"])

\* files of data rows, indexed without comments
InitIndexRows ==
    \E fs \in IndexFieldLists : \E qs \in SeqsUpTo(QIds, MaxRows) :
        InitIndexer([i \in DOMAIN qs |-> TextRow(fs, qs[i], "h1")], FALSE, fs)

\* a block of a commented file with its values as text: the header of the query
\* q and, if hashit, one row
TextBlock(q, hashit) ==
    <<CommentLine("c_program", <<"TBLASTN", "2.2.26+">>),
      CommentLine("c_query", <<q>>),
      CommentLine("c_database", <<"db">>)>>
    \o (IF hashit
        THEN <<CommentLine("c_fields", <<"query id", "subject id">>),
               CommentLine("c_hits", <<"1">>),
               TextRow(<<"qseqid", "sseqid">>, q, "h1")>>
        ELSE <<CommentLine("c_hits", <<"0">>)>>)

IndexCounts == <<"0", "1", "2", "3", "4">>

\* commented files, indexed with comments
InitIndexBlocks ==
    \E bs \in SeqsUpTo(QIds \X BOOLEAN, MaxBlocks) : \E processed \in BOOLEAN :
        InitIndexer(ConcatAll([k \in DOMAIN bs |-> TextBlock(bs[k][1], bs[k][2])])
                        \o (IF processed
                            THEN <<CommentLine("c_processed", <<IndexCounts[Len(bs) + 1]>>)>>
                            ELSE << >>),
                    TRUE, <<"qseqid", "sseqid">>)

Init ==
    \/ InitRows \/ InitCoords \/ InitLines \/ InitFields \/ InitStored \/ InitBlocks
    \/ InitQueries \/ InitIndexRows \/ InitIndexBlocks \/ InitBroken \/ InitHalf
    \/ InitScores \/ InitTokens \/ InitFieldBlocks \/ InitKeys \/ InitDomtabCoords
    \/ InitDomtabQueries \/ InitHmmer2Blocks

---------------------------------------------------------------------------
(* The round trip of Tests/test_SearchIO_write.py: the parsed query results *)
(* are written with the same column list and mode, and the written file is  *)
(* parsed again                                                             *)

\* SearchIO.write(source_qresults, out_file, 'blast-tab'): write_file as a whole
WriteFile ==
    /\ pc = "done"
    /\ phase = "source"
    /\ origin \in {"file", "objects"}
    /\ parser = "blasttab"
    /\ IF \A k \in DOMAIN out : WriteOneOK(fields_arg, has_comments, out[k])
       THEN /\ written' = WriteFileLines(fields_arg, has_comments, out)
            /\ counts' = WriteFileCounts(has_comments, out)
            /\ phase' = "written"
       ELSE /\ phase' = "write_error"
            /\ UNCHANGED <<written, counts>>
    /\ UNCHANGED <<parser, has_comments, fields, file, pos, nreads, line, pc, cur,
                   prev, cur_qid, cur_hid, prev_qid, prev_hid, file_state, hit_list,
                   hsp_list, comments, out, fields_arg, origin, source_qresults, indexer>>
    /\ UNCHANGED hmmer2

\* SearchIO.write(source_qresults, out_file, 'hmmer-domtab-...'): write_file of
\* the writer of the variant as a whole
WriteDomtab ==
    /\ pc = "done"
    /\ phase = "source"
    /\ origin \in {"file", "objects"}
    /\ parser \in {"domtab-hmmhit", "domtab-hmmquery"}
    /\ written' = DomtabWriteFileLines(out, hmm_as_hit)
    /\ counts' = DomtabWriteFileCounts(out)
    /\ phase' = "written"
    /\ UNCHANGED <<parser, has_comments, fields, file, pos, nreads, line, pc, cur,
                   prev, cur_qid, cur_hid, prev_qid, prev_hid, file_state, hit_list,
                   hsp_list, comments, out, fields_arg, origin, source_qresults, indexer>>
    /\ UNCHANGED hmmer2

\* SearchIO.parse(out_file, 'blast-tab'): a new BlastTabIterator on the written file
Reparse ==
    /\ phase = "written"
    /\ parser = "blasttab"
    /\ phase' = "out"
    /\ source_qresults' = out
    /\ out' = << >>
    /\ file' = written
    /\ fields' = _prep_fields(fields_arg)
    /\ line' = Strip(IF Len(written) > 0 THEN written[1] ELSE EmptyLine)
    /\ pos' = IF Len(written) > 0 THEN 1 ELSE 0
    /\ nreads' = 1
    /\ pc' = "start"
    /\ EnterParseQresult
    /\ comments' = EmptyMap
    /\ UNCHANGED <<parser, has_comments, fields_arg, origin, written, counts, indexer>>
    /\ UNCHANGED hmmer2

Next ==
    \/ Iter
    \/ ParseQresultStep
    \/ ParseQresultResume
    \/ ParseCommentsStep
    \/ ResumeEmpty
    \/ WriteFile
    \/ WriteDomtab
    \/ Reparse
    \/ IndexStep
    \/ IndexResume
    \/ GetRaw
    \/ ParseIndexed
    \/ H2ParseQresult
    \/ H2ParseHeader
    \/ H2ParseHits
    \/ H2ParseHsps
    \/ H2ParseHspAlignments
    \/ H2Skip

Spec == Init /\ [][Next]_vars


---------------------------------------------------------------------------
(* What the input says, read off the file without the parser *)

\* the input is a stream of data rows in the default column order, read
\* without comments
RowStream ==
    /\ origin = "file"
    /\ phase = "source"
    /\ ~has_comments
    /\ \A i \in DOMAIN file : file[i].kind = "row"
    /\ parser = "blasttab" => \A i \in DOMAIN file : Len(file[i].cols) = Len(fields)
    /\ parser = "blasttab" => fields = _DEFAULT_FIELDS
    /\ parser # "blasttab" => \A i \in DOMAIN file : Len(file[i].cols) = 23

NRows == Len(file)

SrcCol(i, sname) == file[i].cols[IndexOf(_DEFAULT_FIELDS, sname)]

SrcQ(i) == IF parser = "blasttab" THEN SrcCol(i, "qseqid") ELSE file[i].cols[4]

SrcH(i) == IF parser = "blasttab" THEN SrcCol(i, "sseqid") ELSE file[i].cols[1]

SrcTag(i) ==
    IF parser = "blasttab" THEN DecInt(SrcCol(i, "length")) ELSE DecInt(file[i].cols[10])

\* the maximal runs of consecutive rows with equal query key, among rows 1..i
RECURSIVE QRuns(_)
QRuns(i) ==
    IF i = 0 THEN << >>
    ELSE LET before == QRuns(i - 1)
         IN IF i > 1 /\ SrcQ(i) = SrcQ(i - 1)
            THEN [before EXCEPT ![Len(before)].len = @ + 1]
            ELSE Append(before, [q |-> SrcQ(i), first |-> i, len |-> 1])

\* the maximal runs of consecutive rows with equal query key and hit key
RECURSIVE HRuns(_)
HRuns(i) ==
    IF i = 0 THEN << >>
    ELSE LET before == HRuns(i - 1)
         IN IF i > 1 /\ SrcQ(i) = SrcQ(i - 1) /\ SrcH(i) = SrcH(i - 1)
            THEN [before EXCEPT ![Len(before)].len = @ + 1]
            ELSE Append(before, [q |-> SrcQ(i), h |-> SrcH(i), first |-> i, len |-> 1])

\* the query-key changes between consecutive rows, the one at the end of the
\* stream included
QTransitions == {i \in 1..NRows : i = NRows \/ SrcQ(i) # SrcQ(i + 1)}

(* What was emitted *)

\* the hits of the emitted query results, in order, each with its query result
AllHits ==
    ConcatAll([k \in DOMAIN out |->
                  [j \in DOMAIN out[k].hits |-> [k |-> k, qid |-> out[k].id,
                                                 hit |-> out[k].hits[j]]]])

\* the HSPs of the emitted query results, in order
AllHsps ==
    ConcatAll([j \in DOMAIN AllHits |->
                  [m \in DOMAIN AllHits[j].hit.hsps |->
                      [k |-> AllHits[j].k, qid |-> AllHits[j].qid,
                       hid |-> AllHits[j].hit.id, hsp |-> AllHits[j].hit.hsps[m]]]])

NumHsps(qresult) == Len(ConcatAll([j \in DOMAIN qresult.hits |-> qresult.hits[j].hsps]))

HspTag(hsp) ==
    IF parser = "blasttab" THEN hsp.fragments[1].aln_span ELSE hsp.domain_index

---------------------------------------------------------------------------
(* Claims *)

\* C1: on a stream of data rows both assemblers emit one query result per
\* maximal run of consecutive rows with equal query key, in stream order, each
\* holding as many HSPs as its run has rows; when the iteration is over their
\* number is the number of query-key changes, the final one included.
C1_OneQueryPerRun ==
    RowStream =>
        /\ Len(out) <= Len(QRuns(NRows))
        /\ \A k \in DOMAIN out :
              /\ out[k].id = QRuns(NRows)[k].q
              /\ NumHsps(out[k]) = QRuns(NRows)[k].len
        /\ pc = "done" => Len(out) = Cardinality(QTransitions)

C1_Witness ==
    /\ RowStream /\ pc = "done" /\ parser = "domtab-hmmhit"
    /\ NRows = 3 /\ Len(out) = 2 /\ NumHsps(out[1]) = 2

\* C2: every row becomes one HSP with one fragment, in one hit of one emitted
\* query result; the emitted HSPs read in order are the rows in stream order,
\* and all of them once the iteration is over.
C2_RowConservation ==
    RowStream =>
        /\ Len(AllHsps) <= NRows
        /\ \A i \in DOMAIN AllHsps :
              /\ AllHsps[i].qid = SrcQ(i)
              /\ AllHsps[i].hid = SrcH(i)
              /\ HspTag(AllHsps[i].hsp) = SrcTag(i)
              /\ Len(AllHsps[i].hsp.fragments) = 1
              /\ AllHsps[i].hsp.fragments[1].query_id = SrcQ(i)
              /\ AllHsps[i].hsp.fragments[1].hit_id = SrcH(i)
        /\ pc = "done" => Len(AllHsps) = NRows

C2_Witness ==
    /\ RowStream /\ pc = "done" /\ parser = "blasttab"
    /\ NRows = 3 /\ Len(AllHsps) = 3 /\ Len(out) = 2 /\ Len(AllHits) = 2

\* C3: the emitted hits are the maximal runs of consecutive rows with equal
\* query key and hit key: each hit holds the HSPs of the rows of its run, none
\* is empty, and a run that continues the hit key of the previous query result
\* gets a hit of its own.
C3_HitPerRun ==
    RowStream =>
        /\ Len(AllHits) <= Len(HRuns(NRows))
        /\ \A j \in DOMAIN AllHits :
              LET run == HRuns(NRows)[j]
                  hit == AllHits[j].hit
              IN /\ AllHits[j].qid = run.q
                 /\ hit.id = run.h
                 /\ hit.query_id = run.q
                 /\ Len(hit.hsps) = run.len
                 /\ Len(hit.hsps) >= 1
                 /\ \A m \in DOMAIN hit.hsps : HspTag(hit.hsps[m]) = SrcTag(run.first + m - 1)
        /\ pc = "done" => Len(AllHits) = Len(HRuns(NRows))

C3_Witness ==
    /\ RowStream /\ pc = "done" /\ parser = "blasttab" /\ NRows = 2
    /\ SrcQ(1) # SrcQ(2) /\ SrcH(1) = SrcH(2)
    /\ Len(out) = 2 /\ Len(out[1].hits) = 1 /\ Len(out[2].hits) = 1

\* C4: within an emitted query result no two hits have the same key.
C4_OneHitPerKey ==
    RowStream =>
        \A k \in DOMAIN out : \A i, j \in DOMAIN out[k].hits :
            out[k].hits[i].id = out[k].hits[j].id => i = j

\* C5: once the end of the stream is seen the final query result has been
\* emitted, built from the last row, and nothing is emitted after it; the
\* iteration over a stream with rows ends only that way.
C5_FinalEmission ==
    (RowStream /\ NRows >= 1) =>
        /\ file_state = Some(state_EOF) =>
              /\ pc \in {"yielded", "done"}
              /\ Len(out) = Len(QRuns(NRows))
              /\ out[Len(out)].id = SrcQ(NRows)
              /\ Len(AllHsps) = NRows
              /\ HspTag(AllHsps[NRows].hsp) = SrcTag(NRows)
        /\ file_state # Some(state_EOF) =>
              /\ pc \in {"start", "parse_qresult", "yielded"}
              /\ Len(out) < Len(QRuns(NRows))

C5_Witness ==
    /\ RowStream /\ NRows = 3 /\ pc = "done" /\ file_state = Some(state_EOF)
    /\ Len(out) = 3

\* C9: a fragment of the BLAST assembler stores min(s, e) - 1 and max(s, e) of
\* the raw coordinates of its row, for query and hit, so 0 <= start < end.
C9_StoredCoords ==
    (RowStream /\ parser = "blasttab") =>
        \A i \in DOMAIN AllHsps :
            LET frag == AllHsps[i].hsp.fragments[1]
                qs == DecInt(SrcCol(i, "qstart"))
                qe == DecInt(SrcCol(i, "qend"))
                ss == DecInt(SrcCol(i, "sstart"))
                se == DecInt(SrcCol(i, "send"))
            IN /\ frag.query_start = Min(qs, qe) - 1
               /\ frag.query_end = Max(qs, qe)
               /\ frag.hit_start = Min(ss, se) - 1
               /\ frag.hit_end = Max(ss, se)
               /\ 0 <= frag.query_start /\ frag.query_start < frag.query_end
               /\ 0 <= frag.hit_start /\ frag.hit_start < frag.hit_end

C9_Witness ==
    /\ RowStream /\ parser = "blasttab" /\ pc = "done" /\ Len(AllHsps) = 1
    /\ DecInt(SrcCol(1, "qstart")) > DecInt(SrcCol(1, "qend"))
    /\ DecInt(SrcCol(1, "sstart")) = DecInt(SrcCol(1, "send"))
    /\ DecInt(SrcCol(1, "qstart")) = 12
    /\ AllHsps[1].hsp.fragments[1].query_end = 12

\* the strands of all fragments the assembler of a tabular parser has emitted
Strands ==
    IF (origin = "objects" /\ phase # "out") \/ parser = "hmmer2-text" THEN {}
    ELSE UNION {{AllHsps[i].hsp.fragments[1].query_strand,
            AllHsps[i].hsp.fragments[1].hit_strand} : i \in DOMAIN AllHsps}

FragSummary(frag) ==
    [a \in {"query_start", "query_end", "hit_start", "hit_end", "query_strand",
            "hit_strand"} |-> Get(frag, a)]

\* the keys of a query result and of its hits in order, the HSPs of each hit
QuerySummary(qresult) ==
    [id |-> qresult.id,
     hits |-> [j \in DOMAIN qresult.hits |->
                 [id |-> qresult.hits[j].id,
                  hsps |-> [m \in DOMAIN qresult.hits[j].hsps |->
                              FragSummary(qresult.hits[j].hsps[m].fragments[1])]]]]

Summary(qresults) == [k \in DOMAIN qresults |-> QuerySummary(qresults[k])]

\* the input is a stream of data rows read without comments, in any column list
PlainRows ==
    /\ origin = "file"
    /\ parser = "blasttab"
    /\ ~has_comments
    /\ \A k \in DOMAIN source_qresults : source_qresults[k].hits # << >>

\* C7: the query results parsed from a stream of data rows, written by
\* BlastTabWriter with the column list and mode of the parse and parsed again,
\* come back: the second parse raises no error, and when it is over it has
\* yielded as many query results as the first, with the same keys, the same
\* hit keys in order, the same number of HSPs in each hit and the same stored
\* coordinates and strands in each fragment.
C7_RoundTrip ==
    (phase = "out" /\ PlainRows) =>
        /\ pc # "error"
        /\ pc = "done" => Summary(out) = Summary(source_qresults)

\* the written file of a stream of data rows whose column list has columns of
\* the catalog only
WrittenRows ==
    /\ origin = "file"
    /\ phase = "written"
    /\ parser = "blasttab"
    /\ ~has_comments
    /\ \A i \in DOMAIN file : file[i].kind = "row"
    /\ Range(fields_arg) \subseteq _SUPPORTED_FIELDS

\* C8: the row written for a parsed row has the text of the raw coordinates of
\* that row in the columns qstart, qend, sstart and send, whichever of them the
\* column list has, whatever the order of start and end.
C8_CoordRoundTrip ==
    WrittenRows =>
        /\ Len(written) = Len(file)
        /\ \A i \in DOMAIN written :
              \A n \in DOMAIN fields :
                  fields[n] \in {"qstart", "qend", "sstart", "send"} =>
                      written[i].cols[n] = file[i].cols[n]

C8_Witness ==
    /\ WrittenRows /\ fields = _DEFAULT_FIELDS /\ Len(file) = 1
    /\ DecInt(SrcCol(1, "qstart")) = 12 /\ DecInt(SrcCol(1, "qend")) = 2
    /\ DecInt(SrcCol(1, "sstart")) = 3 /\ DecInt(SrcCol(1, "send")) = 3
    /\ written[1].cols[IndexOf(_DEFAULT_FIELDS, "qstart")] = DecStr(12)
    /\ written[1].cols[IndexOf(_DEFAULT_FIELDS, "qend")] = DecStr(2)
    /\ written[1].cols[IndexOf(_DEFAULT_FIELDS, "sstart")] = DecStr(3)
    /\ written[1].cols[IndexOf(_DEFAULT_FIELDS, "send")] = DecStr(3)

\* the round trip of a stream of data rows in the default column list gives
\* back the query results of the first parse
DefaultRoundTrip ==
    /\ phase = "out" /\ PlainRows /\ fields_arg = _DEFAULT_FIELDS /\ pc = "done"
    /\ Len(out) = 2 /\ Summary(out) = Summary(source_qresults)

\* the first parse of a stream of BLAST data rows read without comments, in any
\* column list
BlastRows ==
    /\ origin = "file"
    /\ phase = "source"
    /\ parser = "blasttab"
    /\ ~has_comments
    /\ \A i \in DOMAIN file : file[i].kind = "row"

\* the strand the raw coordinates of row i give the sequence whose start and
\* end are in the columns sstartname and sendname
RawStrand(i, sstartname, sendname) ==
    IF {sstartname, sendname} \subseteq Range(fields)
    THEN IF DecInt(file[i].cols[IndexOf(fields, sstartname)])
              <= DecInt(file[i].cols[IndexOf(fields, sendname)])
         THEN Some(1) ELSE Some(-1)
    ELSE None

\* C11: the strands of a fragment of the BLAST assembler are those the raw
\* coordinates of its row give: +1 for start <= end, -1 for start > end, and
\* None for a sequence whose start and end are not columns of the list.
C11_StrandFromRawOrder ==
    BlastRows =>
        \A i \in DOMAIN AllHsps :
            /\ AllHsps[i].hsp.fragments[1].query_strand = RawStrand(i, "qstart", "qend")
            /\ AllHsps[i].hsp.fragments[1].hit_strand = RawStrand(i, "sstart", "send")

C11_Witness ==
    /\ BlastRows /\ pc = "done" /\ Len(AllHsps) = 2
    /\ fields = <<"qseqid", "sseqid", "qstart", "qend">>
    /\ AllHsps[1].hsp.fragments[1].query_strand = Some(-1)
    /\ AllHsps[2].hsp.fragments[1].query_strand = Some(1)
    /\ AllHsps[1].hsp.fragments[1].hit_strand = None

\* the data rows of the written file
WrittenDataRows == SelectSeq(written, LAMBDA l : l.kind = "row")

\* the text adjust_coords and adjust_output are to write for the start and the
\* end of a sequence with stored start, end and strand
RawStart(start, end, strand) == DecStr(IF strand < 0 THEN end ELSE start + 1)

RawEnd(start, end, strand) == DecStr(IF strand < 0 THEN start + 1 ELSE end)

\* C12: the coordinate columns of a written row hold (stored end, stored
\* start + 1) for a strand below 0 and (stored start + 1, stored end)
\* otherwise, whichever of the stored values is the larger.
C12_WrittenFromStrand ==
    (phase = "written" /\ Range(fields_arg) \subseteq _SUPPORTED_FIELDS) =>
        /\ Len(WrittenDataRows) = Len(AllHsps)
        /\ \A i \in DOMAIN AllHsps : \A n \in DOMAIN fields_arg :
              LET frag == AllHsps[i].hsp.fragments[1]
                  text == WrittenDataRows[i].cols[n]
              IN /\ fields_arg[n] = "qstart" =>
                      text = RawStart(frag.query_start, frag.query_end, frag.query_strand[1])
                 /\ fields_arg[n] = "qend" =>
                      text = RawEnd(frag.query_start, frag.query_end, frag.query_strand[1])
                 /\ fields_arg[n] = "sstart" =>
                      text = RawStart(frag.hit_start, frag.hit_end, frag.hit_strand[1])
                 /\ fields_arg[n] = "send" =>
                      text = RawEnd(frag.hit_start, frag.hit_end, frag.hit_strand[1])

C12_Witness ==
    /\ phase = "written" /\ origin = "objects" /\ Len(AllHsps) = 1
    /\ AllHsps[1].hsp.fragments[1].query_start = 3
    /\ AllHsps[1].hsp.fragments[1].query_end = 1
    /\ AllHsps[1].hsp.fragments[1].query_strand = Some(1)
    /\ AllHsps[1].hsp.fragments[1].hit_start = 1
    /\ AllHsps[1].hsp.fragments[1].hit_end = 2
    /\ AllHsps[1].hsp.fragments[1].hit_strand = Some(-1)
    /\ WrittenDataRows[1].cols = <<"q1", "h1", DecStr(4), DecStr(1), DecStr(2), DecStr(2)>>

(* What a commented file made of blocks says, read off the file *)

\* the first parse of a commented file made of blocks
BlockStream ==
    /\ origin = "file"
    /\ phase = "source"
    /\ parser = "blasttab"
    /\ has_comments
    /\ file \in BlockFiles

\* the lines with the hit counts: one per block, the last line of its header
HitsLines == SelectSeq([i \in DOMAIN file |-> i], LAMBDA i : file[i].kind = "c_hits")

NBlocks == Len(HitsLines)

\* the number of data rows that follow line i without a break
RECURSIVE RowsAfter(_)
RowsAfter(i) ==
    IF i < Len(file) /\ file[i + 1].kind = "row" THEN 1 + RowsAfter(i + 1) ELSE 0

BlockFirst(k) == IF k = 1 THEN 1 ELSE HitsLines[k - 1] + RowsAfter(HitsLines[k - 1]) + 1

\* the comment lines of kind kind in the header of block k
HeaderLines(k, kind) == {i \in BlockFirst(k)..HitsLines[k] : file[i].kind = kind}

\* column n of the comment line of kind kind of block k, None if the block has
\* no such line or the line no such column
HeaderValue(k, kind, n) ==
    IF \E i \in HeaderLines(k, kind) : Len(file[i].cols) >= n
    THEN Some(file[CHOOSE i \in HeaderLines(k, kind) : TRUE].cols[n])
    ELSE None

ZeroHitBlock(k) == HeaderLines(k, "c_fields") = {} /\ RowsAfter(HitsLines[k]) = 0

\* the number of runs of rows with equal query key among the rows of block k
BlockRuns(k) ==
    LET first == HitsLines[k] + 1
        last == HitsLines[k] + RowsAfter(HitsLines[k])
    IN Cardinality({i \in first..last : i = first \/ SrcQ(i) # SrcQ(i - 1)})

\* the block of each query result the file announces, in file order: one
\* query result for a block without rows, one per run of rows otherwise
BlockOfQuery ==
    ConcatAll([k \in 1..NBlocks |->
                  IF ZeroHitBlock(k) THEN <<k>> ELSE [r \in 1..BlockRuns(k) |-> k]])

\* C13: in a commented file made of blocks, the query results emitted are those
\* the blocks announce, in file order; the one of a block without Fields line
\* and without rows has no hit and carries the id, description, program,
\* version, RID and database of the comments of that block, and the query
\* results of the other blocks have hits.
C13_ZeroHitBlocks ==
    BlockStream =>
        /\ Len(out) <= Len(BlockOfQuery)
        /\ pc = "done" => Len(out) = Len(BlockOfQuery)
        /\ \A j \in DOMAIN out :
              LET k == BlockOfQuery[j]
              IN IF ZeroHitBlock(k)
                 THEN /\ out[j].hits = << >>
                      /\ Get(out[j], "id") = HeaderValue(k, "c_query", 1)
                      /\ Get(out[j], "description") = HeaderValue(k, "c_query", 2)
                      /\ Get(out[j], "version") = HeaderValue(k, "c_program", 2)
                      /\ Get(out[j], "rid") = HeaderValue(k, "c_rid", 1)
                      /\ Get(out[j], "target") = HeaderValue(k, "c_database", 1)
                      /\ ("program" \in DOMAIN out[j]) <=> (HeaderLines(k, "c_program") # {})
                 ELSE out[j].hits # << >>

C13_Witness ==
    /\ BlockStream /\ pc = "done" /\ NBlocks = 2 /\ Len(out) = 3
    /\ ~ZeroHitBlock(1) /\ ZeroHitBlock(2)
    /\ out[3].hits = << >> /\ out[3].id = "q2" /\ Get(out[3], "rid") = Some("RID2")
    /\ out[1].hits # << >> /\ out[2].hits # << >>

C15_MetadataOfOwnBlock ==
    BlockStream =>
        \A j \in DOMAIN out :
            /\ j \in DOMAIN BlockOfQuery
            /\ LET k == BlockOfQuery[j]
               IN
               /\ Get(out[j], "id") = HeaderValue(k, "c_query", 1)
               /\ Get(out[j], "description") = HeaderValue(k, "c_query", 2)
               /\ Get(out[j], "program") =
                      (IF HeaderValue(k, "c_program", 1) = None THEN None
                       ELSE Some(Lower(HeaderValue(k, "c_program", 1)[1])))
               /\ Get(out[j], "version") = HeaderValue(k, "c_program", 2)
               /\ Get(out[j], "rid") = HeaderValue(k, "c_rid", 1)
               /\ Get(out[j], "target") = HeaderValue(k, "c_database", 1)

C15_Witness ==
    /\ BlockStream /\ pc = "done" /\ NBlocks = 2 /\ Len(out) = 3
    /\ ~ZeroHitBlock(1) /\ ~ZeroHitBlock(2)
    /\ Get(out[1], "rid") = Some("RID1") /\ Get(out[1], "version") = Some("2.2.1+")
    /\ Get(out[2], "rid") = None /\ Get(out[2], "version") = Some("2.2.2+")
    /\ Get(out[3], "rid") = None /\ Get(out[3], "version") = Some("2.2.2+")
    /\ Get(out[2], "description") = None /\ Get(out[2], "target") = Some("db2")

\* the column list has a column for the key of the query, and one for the key
\* of the hit; 'std' stands for columns of both
HasQueryKey(fs) == \E n \in DOMAIN fs : fs[n] \in {"qseqid", "qacc", "qaccver", "std"}

HasHitKey(fs) == \E n \in DOMAIN fs : fs[n] \in {"sseqid", "sacc", "saccver", "std"}

\* the column list a Fields line declares
DeclaredFields(l) == [n \in DOMAIN l.cols |-> _LONG_SHORT_MAP[l.cols[n]]]

\* C16: a BlastTabIterator is constructed (its first line is read) if and only
\* if its column list has a query key column and a hit key column, counting
\* those 'std' stands for; otherwise the construction fails and no column list
\* is set.  A Fields line of a commented file made of blocks is passed if and
\* only if the list it declares has both, and fails the parse otherwise.
C16_PrepFieldsAccepts ==
    /\ (origin = "file" /\ parser = "blasttab" /\ phase = "source") =>
          IF HasQueryKey(fields_arg) /\ HasHitKey(fields_arg)
          THEN /\ nreads > 0
               /\ Range(fields) \cap {"qseqid", "qacc", "qaccver"} # {}
               /\ Range(fields) \cap {"sseqid", "sacc", "saccver"} # {}
          ELSE nreads = 0 /\ pc = "error" /\ fields = << >>
    /\ BlockStream =>
          \A i \in DOMAIN file :
              file[i].kind = "c_fields" =>
                  IF HasQueryKey(DeclaredFields(file[i])) /\ HasHitKey(DeclaredFields(file[i]))
                  THEN ~(pc = "error" /\ pos = i)
                  ELSE pos <= i /\ (pos = i => pc \in {"parse_comments", "error"})

C16_Witness ==
    /\ origin = "file" /\ parser = "blasttab" /\ phase = "source"
    /\ fields_arg = <<"sacc", "evalue">> /\ Len(file) = 2
    /\ pc = "error" /\ nreads = 0 /\ fields = << >>

\* the parser has rejected a column list for want of a key column: the one it
\* was constructed with, or the one the Fields line it is at declares
ColumnListRejected ==
    /\ origin = "file" /\ parser = "blasttab" /\ phase = "source"
    /\ pc = "error"
    /\ \/ nreads = 0
       \/ /\ has_comments
          /\ line.kind = "c_fields"
          /\ \A n \in DOMAIN line.cols : line.cols[n] \in DOMAIN _LONG_SHORT_MAP
          /\ ~(HasQueryKey(DeclaredFields(line)) /\ HasHitKey(DeclaredFields(line)))

\* C17: when the parser rejects a column list for want of a key column, none of
\* the lines read so far is a data row and no query result has been emitted.
C17_RejectedBeforeRows ==
    ColumnListRejected =>
        /\ \A i \in 1..pos : file[i].kind # "row"
        /\ out = << >>

\* C18: the column list of a parser constructed in plain mode with a list that
\* has 'std' is that list with the default column list in the place of a
\* 'std', the columns before and after it as they were, and has no 'std'.
C18_StdSpliced ==
    (origin = "file" /\ parser = "blasttab" /\ phase = "source" /\ ~has_comments
        /\ nreads > 0 /\ "std" \in Range(fields_arg)) =>
        /\ "std" \notin Range(fields)
        /\ \E idx \in DOMAIN fields_arg :
              /\ fields_arg[idx] = "std"
              /\ fields = SubSeq(fields_arg, 1, idx - 1) \o _DEFAULT_FIELDS
                              \o SubSeq(fields_arg, idx + 1, Len(fields_arg))

(* What the index says *)

\* an index scan over a file of data rows, read without comments
PlainIndex ==
    /\ origin = "index"
    /\ ~has_comments
    /\ indexer.ipc \in {"loop", "yielded", "done"}

\* the lines of the file in the bytes of triple t
LinesOf(t) == (LinesBefore(t.offset) + 1)..LinesBefore(t.offset + t.length)

\* C19: the triples an index scan without comments has yielded begin at offset
\* 0 and follow one another without gap, each of positive length; the lines in
\* the bytes of a triple are rows whose key column is the key of the triple,
\* and the keys of two triples in succession differ.  When the scan is over the
\* last triple ends at the end of the file (and a file without a line has no
\* triple).
C19_TriplesPartition ==
    PlainIndex =>
        LET T == indexer.triples
        IN /\ T # << >> => T[1].offset = 0
           /\ \A k \in DOMAIN T :
                 /\ T[k].length > 0
                 /\ k > 1 => T[k].offset = T[k - 1].offset + T[k - 1].length
                 /\ k > 1 => T[k].key # T[k - 1].key
                 /\ \E n \in 0..Len(file) : Offset(n) = T[k].offset + T[k].length
                 /\ \A i \in LinesOf(T[k]) :
                       /\ file[i].kind = "row"
                       /\ KeyOfLine(file[i], KeyIdx(fields_arg)[1]) = Some(T[k].key)
           /\ indexer.ipc = "done" =>
                 IF file = << >> THEN T = << >>
                 ELSE T # << >> /\ T[Len(T)].offset + T[Len(T)].length = Offset(Len(file))

C19_Witness ==
    /\ PlainIndex /\ indexer.ipc = "done" /\ fields_arg = <<"sacc", "qacc", "sseqid">>
    /\ Len(file) = 3 /\ Len(indexer.triples) = 2
    /\ indexer.triples[1] = [key |-> <<"q1">>, offset |-> 0, length |-> 18]
    /\ indexer.triples[2] = [key |-> <<"q2">>, offset |-> 18, length |-> 9]

\* C20: get_raw, called with the offset of a yielded triple, returns, and
\* returns as many bytes as the length of the triple, without comments and
\* with comments.
C20_GetRawLength ==
    origin = "index" =>
        \A k \in DOMAIN indexer.raws :
            /\ indexer.raws[k].returns
            /\ indexer.raws[k].bytes = indexer.triples[k].length

\* the parser has been started on bytes that an index scan has gone through,
\* without comments
PlainParsed == origin = "raw" /\ ~has_comments

\* the key of a query result as the index has keys: the pieces of its text
KeyText(qresult) == <<qresult.id>>

\* C21: without comments, the parse of the bytes of a yielded triple alone, with
\* the column list of the indexer, emits one query result, whose key is the key
\* of the triple; the parse of the whole file emits as many query results as
\* the index scan has yielded triples, with the same keys in the same order.
C21_IndexConsistency ==
    PlainParsed =>
        LET T == indexer.triples
            k == indexer.parsed[1]
        IN /\ pc # "error"
           /\ k > 0 => Len(out) <= 1
           /\ (k > 0 /\ pc = "done") => Len(out) = 1 /\ KeyText(out[1]) = T[k].key
           /\ (k = 0 /\ pc = "done") =>
                 /\ Len(out) = Len(T)
                 /\ \A j \in DOMAIN out : j \in DOMAIN T /\ KeyText(out[j]) = T[j].key

\* a commented file that an index scan with comments goes or has gone through
CommentIndexed == origin \in {"index", "raw"} /\ has_comments /\ indexer.parsed \in {None, Some(0)}

\* the lines at which the blocks of the file start, in file order
ProgramLines == SelectSeq([i \in DOMAIN file |-> i], LAMBDA i : file[i].kind = "c_program")

\* the id that block k announces in its Query line, as the index has keys
AnnouncedKey(k) ==
    LET i == CHOOSE i \in DOMAIN file : i > ProgramLines[k] /\ file[i].kind = "c_query"
                                         /\ \A m \in (ProgramLines[k] + 1)..(i - 1) :
                                               file[m].kind # "c_query"
    IN <<file[i].cols[1]>>

\* C22: of a commented file made of blocks, with or without '# BLAST processed'
\* line, the index scan with comments yields one triple per block, in file
\* order, with the id of the Query line of the block as key and the first byte
\* of the block as offset, and the parse of the file emits as many query
\* results as the scan has yielded triples, with the same keys in the same
\* order.
C22_TriplePerBlock ==
    CommentIndexed =>
        LET T == indexer.triples
        IN /\ indexer.ipc # "error"
           /\ Len(T) <= Len(ProgramLines)
           /\ \A k \in DOMAIN T :
                 /\ k \in DOMAIN ProgramLines
                 /\ T[k].offset = Offset(ProgramLines[k] - 1)
                 /\ T[k].key = AnnouncedKey(k)
           /\ indexer.ipc = "done" => Len(T) = Len(ProgramLines)
           /\ (origin = "raw" /\ pc = "done") =>
                 /\ Len(out) = Len(T)
                 /\ \A j \in DOMAIN out : j \in DOMAIN T /\ KeyText(out[j]) = T[j].key

\* write_file has returned
Written == phase \in {"written", "out"} /\ origin \in {"file", "objects"} /\ parser = "blasttab"

\* the query results that were given to write_file
WriterInput == IF phase = "written" THEN out ELSE source_qresults

\* C23: the counters write_file returns are the number of query results given
\* to it in comment mode and the number of those with a hit in plain mode, the
\* number of their hits, and the number of rows it wrote; in plain mode it
\* wrote nothing but rows, none for a query result without hits.
C23_CountsMatchWritten ==
    Written =>
        /\ counts[1] = Cardinality({k \in DOMAIN WriterInput :
                                       has_comments \/ WriterInput[k].hits # << >>})
        /\ counts[2] = Len(ConcatAll([k \in DOMAIN WriterInput |-> WriterInput[k].hits]))
        /\ counts[3] = Cardinality({i \in DOMAIN written : ~StartsWithHash(written[i])})
        /\ ~has_comments => counts[3] = Len(written)

C23_Witness ==
    /\ Written /\ ~has_comments /\ origin = "objects"
    /\ Len(WriterInput) = 2 /\ WriterInput[1].hits = << >> /\ WriterInput[2].hits # << >>
    /\ counts = <<1, 1, 1>> /\ Len(written) = 1

C23_WitnessComments ==
    /\ Written /\ has_comments /\ origin = "file"
    /\ Len(WriterInput) = 2 /\ WriterInput[1].hits = << >> /\ WriterInput[2].hits # << >>
    /\ counts[1] = 2 /\ counts[2] >= 1 /\ counts[3] >= 1

\* the kinds of the lines of the block of a query result in a commented file
BlockKinds(qresult) ==
    <<"c_program", "c_query">>
    \o (IF "rid" \in DOMAIN qresult THEN <<"c_rid">> ELSE << >>)
    \o <<"c_database">>
    \o (IF qresult.hits # << >> THEN <<"c_fields">> ELSE << >>)
    \o <<"c_hits">>
    \o [i \in 1..NumHsps(qresult) |-> "row"]

\* the number of lines of the blocks of the first k query results given
RECURSIVE BlocksLen(_)
BlocksLen(k) == IF k = 0 THEN 0 ELSE BlocksLen(k - 1) + Len(BlockKinds(WriterInput[k]))

\* C24: what write_file writes in comment mode is, for each query result given
\* and in their order, the header (program line, Query line with the id of the
\* query result, RID line if it has a RID, Database line, Fields line if it has
\* hits, hit count line) and then its rows, one per HSP, each with its id in
\* the query column; and last one '# BLAST processed' line with the number of
\* query results given.
C24_BlocksInOrder ==
    (Written /\ has_comments) =>
        /\ [i \in DOMAIN written |-> written[i].kind] =
              ConcatAll([k \in DOMAIN WriterInput |-> BlockKinds(WriterInput[k])])
              \o <<"c_processed">>
        /\ written[Len(written)].cols = <<DecStr(Len(WriterInput))>>
        /\ \A k \in DOMAIN WriterInput :
              \A i \in (BlocksLen(k - 1) + 1)..BlocksLen(k) :
                  /\ written[i].kind \in {"c_query", "row"} =>
                        written[i].cols[1] = WriterInput[k].id
                  /\ written[i].kind = "c_hits" =>
                        written[i].cols = <<DecStr(Len(WriterInput[k].hits))>>

C24_Witness ==
    /\ Written /\ has_comments /\ Len(WriterInput) = 2
    /\ "rid" \in DOMAIN WriterInput[1] /\ WriterInput[1].hits # << >>
    /\ "rid" \notin DOMAIN WriterInput[2] /\ WriterInput[2].hits = << >>
    /\ WriterInput[1].id # WriterInput[2].id
    /\ Len(written) = 12

\* a plain stream of rows of which one at least has not the number of columns
\* of the column list
BrokenStream ==
    /\ origin = "file"
    /\ phase = "source"
    /\ ~has_comments
    /\ parser = "blasttab"
    /\ fields = _DEFAULT_FIELDS
    /\ \A i \in DOMAIN file : file[i].kind = "row"
    /\ \E i \in DOMAIN file : Len(file[i].cols) # Len(fields)

\* the first such row
FirstBroken ==
    CHOOSE i \in DOMAIN file :
        /\ Len(file[i].cols) # Len(fields)
        /\ \A j \in 1..(i - 1) : Len(file[j].cols) = Len(fields)

\* C25: in a plain stream with a row that has not the number of columns of
\* the column list, the parse never ends normally; it ends with an error when
\* the first such row is the current line, having emitted the query results of
\* the runs of rows that another row before that one closes, whole, and nothing
\* of the run that the row follows nor of the row itself.
C25_ColumnCountAborts ==
    BrokenStream =>
        LET R == QRuns(FirstBroken - 1)
            closed == Max(Len(R) - 1, 0)
        IN /\ pc # "done"
           /\ Len(out) <= closed
           /\ \A k \in DOMAIN out :
                 /\ k \in DOMAIN R
                 /\ out[k].id = R[k].q
                 /\ NumHsps(out[k]) = R[k].len
           /\ \A i \in DOMAIN AllHsps : HspTag(AllHsps[i].hsp) = SrcTag(i)
           /\ pc = "error" =>
                 /\ Len(out) = closed
                 /\ pos = FirstBroken
                 /\ line = file[FirstBroken]

C25_Witness ==
    /\ BrokenStream /\ pc = "error" /\ Len(file) = 3 /\ FirstBroken = 3
    /\ Len(file[3].cols) < Len(fields)
    /\ Len(out) = 1 /\ SrcQ(1) # SrcQ(2)

C25_WitnessLong ==
    /\ BrokenStream /\ pc = "error" /\ Len(file) = 3 /\ FirstBroken = 3
    /\ Len(file[3].cols) > Len(fields)
    /\ out = << >> /\ SrcQ(1) = SrcQ(2)

\* the column list has one of the two coordinate columns of the query, or of
\* the hit, and not the other
HalfPair(fs) ==
    \/ ("qstart" \in Range(fs)) # ("qend" \in Range(fs))
    \/ ("sstart" \in Range(fs)) # ("send" \in Range(fs))

\* a plain stream of rows parsed with such a column list
HalfStream ==
    /\ origin = "file"
    /\ phase = "source"
    /\ ~has_comments
    /\ parser = "blasttab"
    /\ \A i \in DOMAIN file : file[i].kind = "row" /\ Len(file[i].cols) = Len(fields)
    /\ pc # "error" \/ nreads > 0
    /\ HalfPair(fields)

\* C26: with a column list that has one coordinate of a pair and not the other,
\* no query result is ever emitted and no hit or HSP is ever kept; the parse
\* of a stream with a row ends with an error in the pass that builds the first
\* fragment, when two lines have been read, and only the parse of a stream
\* without rows ends normally.
C26_HalfPairFails ==
    HalfStream =>
        /\ out = << >>
        /\ hit_list = << >> /\ hsp_list = << >>
        /\ pc = "done" => file = << >>
        /\ pc = "error" => nreads = 2 /\ prev # None /\ ~CoordPairsOK(prev[1].frag)
        /\ file # << >> => nreads <= 2

C26_Witness ==
    /\ HalfStream /\ pc = "error" /\ Len(file) = 2 /\ fields = <<"qseqid", "send", "sseqid">>
    /\ file[1].cols[1] # file[2].cols[1]

\* C27: on a stream of data rows, when either assembler has just emitted a
\* query result, the lines it has read are the rows of the query results
\* emitted so far and one line more, which is its current line: the row that
\* starts the next query result, or the empty line of the end of the file.
C27_OneRowLookahead ==
    (RowStream /\ pc = "yielded") =>
        /\ nreads = Len(AllHsps) + 1
        /\ \A i \in DOMAIN AllHsps : HspTag(AllHsps[i].hsp) = SrcTag(i)
        /\ IF nreads <= NRows
           THEN /\ pos = nreads
                /\ line = file[nreads]
                /\ SrcQ(nreads) # out[Len(out)].id
           ELSE /\ pos = NRows
                /\ line = EmptyLine

C27_Witness ==
    /\ RowStream /\ pc = "yielded" /\ parser = "blasttab"
    /\ NRows = 3 /\ Len(out) = 1 /\ Len(AllHsps) = 2 /\ nreads = 3

C27_WitnessDomtab ==
    /\ RowStream /\ pc = "yielded" /\ parser = "domtab-hmmquery"
    /\ NRows = 3 /\ Len(out) = 2 /\ Len(AllHsps) = 3 /\ nreads = 4

(* What the writer makes of scores *)

\* a query result with scores has been written
ScoresWritten ==
    /\ Written /\ origin = "objects" /\ fields_arg = ScoreFields
    /\ Len(WriterInput) = 1 /\ Len(written) = 1

\* the HSP that was written, and the text of a column of its row
ScoredHsp == WriterInput[1].hits[1].hsps[1]

ScoreText(field) == written[1].cols[IndexOf(ScoreFields, field)]

\* the text t is the value v rounded to the last digit of t: they differ by
\* half a unit of that digit at most.  When the last digit of t stands above
\* every digit of v this says that t is 0, and when the last digit of v
\* stands above every digit of t it says that both are 0; otherwise the two
\* are compared at their common exponent.
Near(t, v) ==
    LET c == Min(t.e, v.e)
        T == t.m * Pow10(t.e - c)
        V == v.m * Pow10(v.e - c)
        U == Pow10(t.e - c)
    IN IF t.e - v.e > NumDigits(v.m) THEN t.m = 0
       ELSE IF v.e - t.e > NumDigits(t.m) THEN t.m = 0 /\ v.m = 0
       ELSE 2 * (IF T >= V THEN T - V ELSE V - T) <= U

\* v < 10^k, and not
Below(v, k) == v.m = 0 \/ Mag(v) < k

\* a < b for two values of similar size, by their digits at a common exponent
Smaller(a, b) ==
    LET c == Min(a.e, b.e)
    IN a.m * Pow10(a.e - c) < b.m * Pow10(b.e - c)

\* v < 9e-4
BelowNineTenThousandths(v) ==
    Below(v, -4) \/ (Below(v, -3) /\ Smaller(v, [m |-> 9, e |-> -4]))

\* the text has n significant digits, and d decimals
SignificantDigits(t, n) == NumDigits(t.m) = n

Decimals(t, d) == t.e = 0 - d

\* C28 as the specification has it: an expectation value below 1e-180 is
\* written as 0.0, below 1e-99 with 2 significant digits, below 9e-4 with 3
\* significant digits, below 0.1 with 4 decimals, below 1.0 with 2 decimals,
\* below 10.0 with 1 decimal, and with no decimal otherwise; a value equal to
\* a threshold is written as the values above it.
C28_EvalueBandsAsSpecified ==
    ScoresWritten =>
        LET v == ScoredHsp.evalue
            t == ScoreText("evalue")
        IN IF Below(v, -180) THEN t = [m |-> 0, e |-> -1]
           ELSE IF Below(v, -99) THEN SignificantDigits(t, 2) /\ Near(t, v)
           ELSE IF BelowNineTenThousandths(v) THEN SignificantDigits(t, 3) /\ Near(t, v)
           ELSE IF Below(v, -1) THEN Decimals(t, 4) /\ Near(t, v)
           ELSE IF Below(v, 0) THEN Decimals(t, 2) /\ Near(t, v)
           ELSE IF Below(v, 1) THEN Decimals(t, 1) /\ Near(t, v)
           ELSE Decimals(t, 0) /\ Near(t, v)

\* C28: an expectation value below 1e-180 is written as 0.0, below 9e-4 in
\* exponential notation with 1 significant digit (below and above 1e-99
\* alike), below 0.1 with 3 decimals, below 1.0 with 2 decimals, below 10.0
\* with 1 decimal, and with no decimal otherwise, rounded to its last digit;
\* a value equal to a threshold is written as the values above it.
C28_EvalueBands ==
    ScoresWritten =>
        LET v == ScoredHsp.evalue
            t == ScoreText("evalue")
        IN IF Below(v, -180) THEN t = [m |-> 0, e |-> -1]
           ELSE IF BelowNineTenThousandths(v) THEN SignificantDigits(t, 1) /\ Near(t, v)
           ELSE IF Below(v, -1) THEN Decimals(t, 3) /\ Near(t, v)
           ELSE IF Below(v, 0) THEN Decimals(t, 2) /\ Near(t, v)
           ELSE IF Below(v, 1) THEN Decimals(t, 1) /\ Near(t, v)
           ELSE Decimals(t, 0) /\ Near(t, v)

C28_Witness ==
    /\ ScoresWritten
    /\ ScoredHsp.evalue = [m |-> 9, e |-> -4]
    /\ ScoreText("evalue") = [m |-> 1, e |-> -3]

\* C29: a bit score above 9999 is written in exponential notation with 3
\* digits after the first, a bit score above 99.9 and not above 9999 as its
\* integer part, and another one with 1 decimal; 9999 and 99.9 are written as
\* the values below them; pident and ppos are written with 2 decimals.
C29_BitscoreBands ==
    ScoresWritten =>
        LET b == ScoredHsp.bitscore
            t == ScoreText("bitscore")
        IN /\ IF Smaller([m |-> 9999, e |-> 0], b) THEN SignificantDigits(t, 4) /\ Near(t, b)
              ELSE IF Smaller([m |-> 999, e |-> -1], b)
              THEN /\ Decimals(t, 0)
                   /\ t.m = (IF b.e >= 0 THEN b.m * Pow10(b.e) ELSE b.m \div Pow10(0 - b.e))
              ELSE Decimals(t, 1) /\ Near(t, b)
           /\ Decimals(ScoreText("pident"), 2) /\ Near(ScoreText("pident"), ScoredHsp.ident_pct)
           /\ Decimals(ScoreText("ppos"), 2) /\ Near(ScoreText("ppos"), ScoredHsp.pos_pct)

C29_Witness ==
    /\ ScoresWritten
    /\ ScoredHsp.bitscore = [m |-> 9999, e |-> 0]
    /\ ScoreText("bitscore") = [m |-> 9999, e |-> 0]
    /\ ScoreText("pident") = [m |-> 10000, e |-> -2]

C29_WitnessPercent ==
    /\ ScoresWritten
    /\ ScoredHsp.ident_pct = [m |-> 98766, e |-> -3]
    /\ ScoreText("pident") = [m |-> 9877, e |-> -2]
    /\ ScoreText("bitscore") = [m |-> 505, e |-> -1]

(* The tokens of a row of a domain table *)

\* a domain table is read
TokenStream ==
    /\ origin = "file"
    /\ phase = "source"
    /\ parser \in {"domtab-hmmhit", "domtab-hmmquery"}
    /\ \A i \in DOMAIN file : file[i].kind = "row"

\* the row that cur was decoded from: the line before the current one when
\* the current line is a row that the loop has not decoded, and the last line
\* read otherwise
CurRow == IF line.kind = "row" /\ pc # "yielded" THEN pos - 1 ELSE pos

\* C30: a decoded row of a domain table has 22 tokens at least; its
\* description is made of its tokens from the 23rd on, in order, and is empty
\* when it has 22 tokens; its first 22 columns are its first 22 tokens; the
\* parse ends with an error only at a row of less than 22 tokens, such a row
\* is the current line only until the loop decodes it or after the error, and
\* the parse never ends normally on a table with such a row.
C30_DomtabTokens ==
    TokenStream =>
        /\ cur # None =>
              LET cols == file[CurRow].cols
                  n == Len(cols)
                  row == cur[1]
              IN /\ n >= 22
                 /\ row.hit.description = (IF n = 22 THEN << >> ELSE SubSeq(cols, 23, n))
                 /\ row.hit.id = cols[1]
                 /\ row.qresult.id = cols[4]
                 /\ row.hsp.domain_index = DecInt(cols[10])
                 /\ row.hsp.env_end = DecInt(cols[21])
                 /\ row.hsp.acc_avg = FloatOf(cols[22])
        /\ pc = "error" =>
              /\ line.kind = "row"
              /\ line = file[pos]
              /\ Len(line.cols) < 22
        /\ (line.kind = "row" /\ Len(line.cols) < 22) => pc \in {"parse_qresult", "error"}
        /\ (\E i \in DOMAIN file : Len(file[i].cols) < 22) => pc # "done"

C30_Witness ==
    /\ TokenStream /\ pc = "done" /\ Len(file) = 2
    /\ Len(file[1].cols) = 25 /\ Len(file[2].cols) = 22
    /\ Len(out) = 2
    /\ out[1].hits[1].description = <<"a", "long", "desc">>
    /\ out[2].hits[1].description = << >>

C30_WitnessRejected ==
    /\ TokenStream /\ pc = "error" /\ Len(file) = 2
    /\ Len(file[1].cols) = 24 /\ Len(file[2].cols) = 21
    /\ cur # None /\ cur[1].hit.description = <<"a", "long">>

(* The column list of each block *)

\* the first parse of a commented file of blocks with whatever Fields lines
FieldBlockStream ==
    /\ origin = "file"
    /\ phase = "source"
    /\ parser = "blasttab"
    /\ has_comments
    /\ file \in FieldBlockFiles

\* the column list that the comment block of row i declares: the one of the
\* last Fields line before the row
OwnFields(i) ==
    LET f == CHOOSE j \in 1..i : file[j].kind = "c_fields"
                                  /\ \A m \in (j + 1)..i : file[m].kind # "c_fields"
    IN [n \in DOMAIN file[f].cols |-> _LONG_SHORT_MAP[file[f].cols[n]]]

\* the data rows of the file, in order
DataRows == SelectSeq([i \in DOMAIN file |-> i], LAMBDA i : file[i].kind = "row")

\* the text of column sname of row i, read with the column list of its block
OwnColumn(i, sname) == file[i].cols[IndexOf(OwnFields(i), sname)]

\* C31: in a commented file of blocks with whatever Fields lines and blocks
\* without hits between them, the column list of the parser is the one that
\* the block of the current row declares whenever the loop is at a row, the
\* parse ends normally, and the HSPs emitted are those of the rows in file
\* order, each with the query id, hit id and alignment length that its row
\* has in the columns of its own block.
C31_OwnFieldsLine ==
    FieldBlockStream =>
        /\ pc # "error"
        /\ (pc \in {"parse_qresult", "yielded"} /\ line.kind = "row") =>
              fields = OwnFields(pos)
        /\ Len(AllHsps) <= Len(DataRows)
        /\ pc = "done" => Len(AllHsps) = Len(DataRows)
        /\ \A j \in DOMAIN AllHsps :
              j \in DOMAIN DataRows =>
                  LET i == DataRows[j]
                  IN /\ AllHsps[j].qid = OwnColumn(i, "qseqid")
                     /\ AllHsps[j].hid = OwnColumn(i, "sseqid")
                     /\ AllHsps[j].hsp.fragments[1].aln_span = DecInt(OwnColumn(i, "length"))

C31_Witness ==
    /\ FieldBlockStream /\ pc = "done" /\ Len(DataRows) = 2 /\ Len(out) = 3
    /\ OwnFields(DataRows[1]) = _DEFAULT_FIELDS
    /\ Len(OwnFields(DataRows[2])) = 3
    /\ out[2].hits = << >>
    /\ out[3].hits[1].id = "h1"

C31_WitnessSwapped ==
    /\ FieldBlockStream /\ pc = "done" /\ Len(out) = 2 /\ Len(DataRows) = 2
    /\ OwnFields(DataRows[1])[1] = "sseqid"
    /\ OwnFields(DataRows[2])[1] = "qseqid"
    /\ out[1].hits[1].id = "h1" /\ out[1].id = "q2"

(* The key columns *)

\* the first parse of two rows with several key columns
KeyStream ==
    /\ origin = "file"
    /\ phase = "source"
    /\ parser = "blasttab"
    /\ ~has_comments
    /\ fields \in KeyLists
    /\ Len(file) = 2

\* the column of row i that is the first of the names in the column list
FirstPresent(i, names) ==
    LET name == names[CHOOSE n \in DOMAIN names :
                          /\ names[n] \in Range(fields)
                          /\ \A m \in 1..(n - 1) : names[m] \notin Range(fields)]
    IN file[i].cols[IndexOf(fields, name)]

QKey(i) == FirstPresent(i, <<"qseqid", "qacc", "qaccver">>)

HKey(i) == FirstPresent(i, <<"sseqid", "sacc", "saccver">>)

\* C32: of two consecutive rows, the query result of the first is closed
\* before the second if and only if the rows differ in the first of the
\* columns qseqid, qacc, qaccver that the column list has, and the hit of
\* the first is closed if and only if they differ in that column or in the
\* first of sseqid, sacc, saccver that the list has, whatever the values of the
\* other key columns; the emitted query results and hits have these keys as
\* their ids.
C32_KeyByPriority ==
    (KeyStream /\ pc = "done") =>
        /\ Len(out) = (IF QKey(1) = QKey(2) THEN 1 ELSE 2)
        /\ Len(AllHits) = (IF QKey(1) = QKey(2) /\ HKey(1) = HKey(2) THEN 1 ELSE 2)
        /\ Len(AllHsps) = 2
        /\ \A i \in 1..2 :
              /\ AllHsps[i].qid = QKey(i)
              /\ AllHsps[i].hid = HKey(i)
              /\ AllHsps[i].hsp.fragments[1].aln_span = 30 + i

C32_Witness ==
    /\ KeyStream /\ pc = "done" /\ Len(fields) = 7
    /\ file[2].cols = <<"q1", "qa2", "qv2", "h1", "ha2", "hv1", DecStr(32)>>
    /\ Len(out) = 1 /\ Len(out[1].hits) = 1 /\ Len(out[1].hits[1].hsps) = 2

C32_WitnessAccession ==
    /\ KeyStream /\ pc = "done" /\ Len(fields) = 5
    /\ file[2].cols = <<"qv2", "qa1", "hv1", "ha2", DecStr(32)>>
    /\ Len(out) = 1 /\ Len(out[1].hits) = 2 /\ out[1].id = "qa1"

(* The key column of the indexer and of the parser *)

\* the position, from 0, of the column that the parser takes the key of the
\* query from: the first of qseqid, qacc, qaccver in the expanded column list
ParserKeyColumn(fs) ==
    LET names == <<"qseqid", "qacc", "qaccver">>
        expanded == ExpandStd(fs)
        name == names[CHOOSE n \in DOMAIN names :
                          /\ names[n] \in Range(expanded)
                          /\ \A m \in 1..(n - 1) : names[m] \notin Range(expanded)]
    IN IndexOf(expanded, name) - 1

\* C33: an indexer without comments that is given a column list that the
\* parser accepts has a key column (its construction has not failed), and it
\* is the column that the parser takes the key of the query from, counted in
\* the expanded list.
C33_IndexerKeyColumn ==
    (origin = "index" /\ ~has_comments /\ ~PrepFieldsFails(fields_arg)) =>
        indexer.key_idx = Some(ParserKeyColumn(fields_arg))

(* The grouping, as a function of the keys alone *)

\* the (query key, hit key) pairs of the rows, in stream order
KeyPairs == [i \in DOMAIN file |-> [q |-> SrcQ(i), h |-> SrcH(i)]]

\* the grouping of a sequence of key pairs: the query keys of the runs of
\* pairs with equal query key, each with the hit keys of its runs of equal
\* pairs and the number of pairs of each
RECURSIVE GroupingOf(_)
GroupingOf(pairs) ==
    IF pairs = << >> THEN << >>
    ELSE LET n == Len(pairs)
             g == GroupingOf(SubSeq(pairs, 1, n - 1))
             p == pairs[n]
             one == [h |-> p.h, n |-> 1]
         IN IF n > 1 /\ pairs[n - 1].q = p.q
            THEN LET hits == g[Len(g)].hits
                 IN IF pairs[n - 1].h = p.h
                    THEN [g EXCEPT ![Len(g)].hits[Len(hits)].n = @ + 1]
                    ELSE [g EXCEPT ![Len(g)].hits = Append(hits, one)]
            ELSE Append(g, [q |-> p.q, hits |-> <<one>>])

\* the grouping that was emitted
Emitted ==
    [k \in DOMAIN out |->
        [q |-> out[k].id,
         hits |-> [j \in DOMAIN out[k].hits |->
                      [h |-> out[k].hits[j].id, n |-> Len(out[k].hits[j].hsps)]]]]

\* C34: on a stream of data rows the grouping that either assembler has
\* emitted when it ends is the grouping of the key pairs of the rows, which
\* depends on the pairs alone: the BLAST assembler and the domain table
\* assemblers emit the same grouping for the same pairs.
C34_SameGrouping ==
    (RowStream /\ pc = "done") => Emitted = GroupingOf(KeyPairs)

C34_Witness ==
    /\ RowStream /\ pc = "done" /\ parser = "domtab-hmmquery"
    /\ KeyPairs = <<[q |-> "q1", h |-> "h1"], [q |-> "q2", h |-> "h1"], [q |-> "q2", h |-> "h1"]>>
    /\ Emitted = <<[q |-> "q1", hits |-> <<[h |-> "h1", n |-> 1]>>],
                   [q |-> "q2", hits |-> <<[h |-> "h1", n |-> 2]>>]>>

C34_WitnessBlast ==
    /\ RowStream /\ pc = "done" /\ parser = "blasttab"
    /\ KeyPairs = <<[q |-> "q1", h |-> "h1"], [q |-> "q2", h |-> "h1"], [q |-> "q2", h |-> "h1"]>>
    /\ Emitted = <<[q |-> "q1", hits |-> <<[h |-> "h1", n |-> 1]>>],
                   [q |-> "q2", hits |-> <<[h |-> "h1", n |-> 2]>>]>>

(* The round trip of the coordinates of a domain table *)

\* a domain table has been parsed and its query results written by the writer
\* of the same variant
DomtabWritten ==
    /\ origin = "file"
    /\ parser \in {"domtab-hmmhit", "domtab-hmmquery"}
    /\ phase = "written"

\* C35: when the query results parsed from a domain table are written by the
\* writer of the same variant, the written rows are those of the table in
\* order and have its hmm from, hmm to, ali from and ali to columns; the
\* parser of the HMM-as-query variant has stored the hmm pair as query
\* coordinates and the ali pair as hit coordinates, the other parser the other
\* way round, each start as the number in the from column minus 1 and each end
\* as the number in the to column.
C35_DomtabRoundTrip ==
    DomtabWritten =>
        /\ Len(written) = 3 + Len(file)
        /\ Len(AllHsps) = Len(file)
        /\ \A i \in DOMAIN file :
              /\ 3 + i \in DOMAIN written
              /\ Len(written[3 + i].cols) >= 19
              /\ \A c \in 16..19 : written[3 + i].cols[c] = file[i].cols[c]
              /\ i \in DOMAIN AllHsps
              /\ LET frag == AllHsps[i].hsp.fragments[1]
                     hmm == <<DecInt(file[i].cols[16]) - 1, DecInt(file[i].cols[17])>>
                     ali == <<DecInt(file[i].cols[18]) - 1, DecInt(file[i].cols[19])>>
                 IN IF parser = "domtab-hmmquery"
                    THEN /\ <<frag.query_start, frag.query_end>> = hmm
                         /\ <<frag.hit_start, frag.hit_end>> = ali
                    ELSE /\ <<frag.hit_start, frag.hit_end>> = hmm
                         /\ <<frag.query_start, frag.query_end>> = ali

C35_Witness ==
    /\ DomtabWritten /\ parser = "domtab-hmmquery" /\ Len(file) = 1
    /\ SubSeq(file[1].cols, 16, 19) = <<DecStr(2), DecStr(12), DecStr(1), DecStr(3)>>
    /\ SubSeq(written[4].cols, 16, 19) = <<DecStr(2), DecStr(12), DecStr(1), DecStr(3)>>
    /\ out[1].hits[1].hsps[1].fragments[1].query_start = 1
    /\ out[1].hits[1].hsps[1].fragments[1].hit_end = 3

C35_WitnessHmmhit ==
    /\ DomtabWritten /\ parser = "domtab-hmmhit" /\ Len(file) = 1
    /\ SubSeq(file[1].cols, 16, 19) = <<DecStr(3), DecStr(1), DecStr(12), DecStr(2)>>
    /\ SubSeq(written[4].cols, 16, 19) = <<DecStr(3), DecStr(1), DecStr(12), DecStr(2)>>
    /\ out[1].hits[1].hsps[1].fragments[1].hit_start = 2
    /\ out[1].hits[1].hsps[1].fragments[1].query_end = 2

(* What the writer of the domain table writes *)

\* write_file of a writer of the domain table has returned
DomtabWriterDone ==
    /\ origin \in {"file", "objects"}
    /\ parser \in {"domtab-hmmhit", "domtab-hmmquery"}
    /\ phase = "written"

\* C36: what write_file of a writer of the domain table has written is three
\* header lines and, after them, nothing but data rows, for no query result
\* too: one row per HSP of the query results given, in their order, each with
\* the hit id, query id and domain number of its HSP, and none for a query
\* result without hits; it returns the number of query results with a hit, the
\* number of hits and the number of HSPs, which is the number of rows.
C36_HeaderOnceThenRows ==
    DomtabWriterDone =>
        /\ Len(written) = 3 + Len(AllHsps)
        /\ \A i \in DOMAIN written : StartsWithHash(written[i]) <=> i <= 3
        /\ \A i \in DOMAIN AllHsps :
              3 + i \in DOMAIN written =>
                  /\ written[3 + i].kind = "row"
                  /\ written[3 + i].cols[1] = AllHsps[i].hid
                  /\ written[3 + i].cols[4] = AllHsps[i].qid
                  /\ written[3 + i].cols[10] = DecStr(AllHsps[i].hsp.domain_index)
        /\ counts[1] = Cardinality({k \in DOMAIN out : out[k].hits # << >>})
        /\ counts[2] = Len(AllHits)
        /\ counts[3] = Len(AllHsps)
        /\ counts[3] = Cardinality({i \in DOMAIN written : written[i].kind = "row"})

C36_Witness ==
    /\ DomtabWriterDone /\ origin = "objects" /\ Len(out) = 3
    /\ out[1].hits = << >> /\ Len(out[2].hits) = 2 /\ Len(out[3].hits) = 1
    /\ counts = <<2, 3, 5>>
    /\ Len(written) = 8
    /\ written[4].cols[10] = DecStr(211) /\ written[8].cols[10] = DecStr(312)

C36_WitnessEmpty ==
    /\ DomtabWriterDone /\ origin = "objects" /\ out = << >>
    /\ Len(written) = 3 /\ counts = <<0, 0, 0>>

(* The blocks of a file of HMMER 2 text, read off the file *)

\* the places of the 'Query' lines among the first p lines of the file
QueryLines(p) == {i \in 1..p : file[i].kind = "Query"}

\* the names of the queries of the blocks, in file order
BlockIds ==
    LET qs == SelectSeq(file, LAMBDA l : l.kind = "Query")
    IN [k \in DOMAIN qs |-> qs[k].cols[1]]

\* the iterator is inside a block: a query result is begun and not yet yielded
InBlock ==
    pc \in {"h2_header", "h2_parse_hits", "h2_parse_hsps", "h2_parse_hsp_alignments",
            "h2_skip"}

\* C37: Hmmer2TextIterator yields one query result for each block of the file,
\* in file order, whatever stands between the table of domains and '//'; while
\* a block is parsed and skipped the 'Query' lines read are those of the blocks
\* yielded and of the one being parsed, and at a yield they are those of the
\* blocks yielded: no line of the next block is consumed.
C37_OneQueryPerBlock ==
    parser = "hmmer2-text" =>
        /\ pc = "done" => [k \in DOMAIN out |-> out[k].id] = BlockIds
        /\ InBlock => Cardinality(QueryLines(pos)) = Len(out) + 1
        /\ pc = "h2_yielded" => Cardinality(QueryLines(pos)) = Len(out)

\* C6: iterating a BlastTabIterator over a finite file ends after finitely
\* many line reads: a file of n lines is read with at most n + 2 calls of
\* readline (the n lines, the empty read at the end of the file, and one more
\* by _parse_comments after the last block).  Every further call returns ''
\* again, to a loop whose state it does not change.
C6_EndsWithinReads == nreads <= Len(file) + 2

============================================================================
